---------------------------- MODULE Spec2Model ----------------------------
(***************************************************************************)
(* A model of jm-downloader-rs: the protocol client (jm_client.rs), the    *)
(* session manager (global_client.rs) and the download handlers            *)
(* (handlers.rs, image_processor.rs).                                      *)
(*                                                                         *)
(* Text is modelled as a sequence of characters.  A character outside      *)
(* ASCII is written as its code point, e.g. "U+6F2B".                      *)
(***************************************************************************)
EXTENDS Integers, Sequences, FiniteSets, TLC

VARIABLES
    \* ---- session manager (global_client.rs) ----
    session_valid,   \* GlobalJmClient.session_valid: the value behind the RwLock
    flagWriter,      \* the caller holding session_valid's write guard, or NoCaller
    clientReaders,   \* the callers holding a read guard of GlobalJmClient.client
    pc,              \* per caller: where it is inside its session-manager call
    stage,           \* per caller: "first" attempt, "repair" (re-login after an
                     \* authentication error) or "retry"
    op,              \* per caller: get_comic / get_chapter / get_scramble_id
    arg,             \* per caller: the id passed to the call
    ret,             \* per caller: the value the call returned (when pc = "done")
    \* history of the running call (not program state)
    hist,            \* per caller: res, the results of the protocol-client
                     \* invocations in order; sent, the value of epoch when the
                     \* first one was issued; marks, how often it ran
                     \* mark_session_invalid; repair, what the re-login after an
                     \* authentication error did ("skipped": found the flag
                     \* true, "login_ok", "login_err")
    epoch,           \* number of successful logins so far
    nstarted,        \* number of session-manager calls started so far
    \* ---- download orchestrator (handlers.rs, image_processor.rs) ----
    dpc,             \* per request: where the handler is
    req,             \* per request: the request body
    comic,           \* per request: the comic returned by get_comic
    pos,             \* per request: position in chapter_ids of the chapter at work
    manifest,        \* per request: chapter.images of the chapter at work
    task,            \* per request: the state of each page task of the chapter
    finished,        \* per request: the errors of the failed, unjoined tasks, in
                     \* the order they failed
    permits,         \* per request: permits available in its semaphore
    images,          \* per request: the (index, path) pairs joined so far
    chapters,        \* per request: all_chapters_data
    resp,            \* per request: what the handler returned (when dpc = "done")
    dirs,            \* the chapter directories on disk
    files,           \* the page files on disk
    timers,          \* per directory: the times at which the removals scheduled
                     \* and not yet run wake up, in ascending order
    \* history (not program state)
    fetches,         \* per request: image requests sent so far
    clean,           \* per request: no directory of the request was removed
                     \* since it arrived
    standing,        \* per request: "first", or "repeat" of a successful request
                     \* with the same body, or "intact": a repeat with no
                     \* removal in its directories since that request arrived
    prior,           \* per request body: the data of its last success
    intact,          \* the bodies whose last success saw no removal in its
                     \* directories since it arrived
    envfail,         \* per request: a metadata call or the directory creation failed
    pdf,             \* per directory: what its merged.pdf holds
    now,             \* the clock, in seconds
    offered,         \* the request bodies clients send (fixed in a behaviour)
    calls,           \* per request: the <<operation, id>> calls that have returned to
                     \* it (a call in flight shows in dpc)
    made,            \* per request: the directories create_download_dir made for it
    sched,           \* per request: the paths it handed to schedule_delete_dir
                     \* with expire_seconds >= 0, in order
    \* ---- functions taken alone ----
    fnArgs,          \* the function under study and the arguments it is given
    fnResult,        \* <<>>, or <<v>> once the function has returned v
    run              \* the local variables of a function that runs in several
                     \* steps (download_image and the retry middleware under it)

\* no caller holds the guard (callers are numbered from 1)
NoCaller == 0

(***************************************************************************)
(* Text                                                                    *)
(***************************************************************************)
Digit(d) == CASE d = 0 -> "0" [] d = 1 -> "1" [] d = 2 -> "2" [] d = 3 -> "3"
              [] d = 4 -> "4" [] d = 5 -> "5" [] d = 6 -> "6" [] d = 7 -> "7"
              [] d = 8 -> "8" [] d = 9 -> "9"

RECURSIVE DecNat(_)
DecNat(n) == IF n < 10 THEN <<Digit(n)>> ELSE DecNat(n \div 10) \o <<Digit(n % 10)>>

\* format!("{}", n) of an i64
Dec(n) == IF n < 0 THEN <<"-">> \o DecNat(-n) ELSE DecNat(n)

\* str::to_lowercase, on the characters that occur in the model
ToLowerChar(ch) ==
    CASE ch = "A" -> "a" [] ch = "B" -> "b" [] ch = "C" -> "c" [] ch = "D" -> "d"
      [] ch = "E" -> "e" [] ch = "F" -> "f" [] ch = "G" -> "g" [] ch = "H" -> "h"
      [] ch = "I" -> "i" [] ch = "J" -> "j" [] ch = "K" -> "k" [] ch = "L" -> "l"
      [] ch = "M" -> "m" [] ch = "N" -> "n" [] ch = "O" -> "o" [] ch = "P" -> "p"
      [] ch = "Q" -> "q" [] ch = "R" -> "r" [] ch = "S" -> "s" [] ch = "T" -> "t"
      [] ch = "U" -> "u" [] ch = "V" -> "v" [] ch = "W" -> "w" [] ch = "X" -> "x"
      [] ch = "Y" -> "y" [] ch = "Z" -> "z" [] OTHER -> ch

ToLower(s) == [i \in 1..Len(s) |-> ToLowerChar(s[i])]

\* str::contains
Contains(s, sub) ==
    \E i \in 0..(Len(s) - Len(sub)) :
        \A j \in 1..Len(sub) : s[i + j] = sub[j]

(***************************************************************************)
(* AppError and Result (lib.rs)                                            *)
(***************************************************************************)
\* Display of AppError is "{0}": the message alone, whatever the kind.
Err(kind, msg) == [ok |-> FALSE, kind |-> kind, msg |-> msg, val |-> <<>>]
Ok(v) == [ok |-> TRUE, kind |-> "Ok", msg |-> <<>>, val |-> <<v>>]
\* the call did not return: it panicked, and the panic unwinds the caller
Panicked == [ok |-> FALSE, kind |-> "Panic", msg |-> <<>>, val |-> <<>>]

AppError_to_string(e) == e.msg

(***************************************************************************)
(* is_auth_error (global_client.rs)                                        *)
(***************************************************************************)
AuthMarkers ==
    { <<"u", "n", "a", "u", "t", "h", "o", "r", "i", "z", "e", "d">>,
      <<"4", "0", "1">>,
      <<"U+767B", "U+5F55">>,                     \* "登录"
      <<"U+8BA4", "U+8BC1">>,                     \* "认证"
      <<"s", "e", "s", "s", "i", "o", "n">>,
      <<"c", "o", "o", "k", "i", "e">>,
      <<"c", "o", "d", "e", " ", "4", "0", "1">>,
      <<"c", "o", "d", "e", " ", "4", "0", "3">> }

is_auth_error(e) ==
    LET error_msg == ToLower(AppError_to_string(e))
    IN  \E m \in AuthMarkers : Contains(error_msg, m)


(***************************************************************************)
(* The protocol client (jm_client.rs).  An upstream response is a record:  *)
(*   send      "ok", "send_err" (send() failed after the middleware's      *)
(*             retries) or "read_err" (text() failed)                      *)
(*   err       the text of the transport error                             *)
(*   status    the HTTP status                                             *)
(*   body      the body text                                               *)
(*   json      whether the body deserialises as JmResp                     *)
(*   code, error_msg, data   the fields of JmResp                          *)
(* and data is a record: is_str (Value::as_str is Some), dec (what         *)
(* decrypt_data does with it), text (the decrypted text), json (whether    *)
(* the text is well-formed JSON), name (the top-level "name"), typed       *)
(* (whether it deserialises as the response struct) and value.             *)
(***************************************************************************)
StatusReason(status) ==
    CASE status = 200 -> <<"O", "K">>
      [] status = 401 -> <<"U", "n", "a", "u", "t", "h", "o", "r", "i", "z", "e", "d">>
      [] status = 403 -> <<"F", "o", "r", "b", "i", "d", "d", "e", "n">>
      [] status = 404 -> <<"N", "o", "t", " ", "F", "o", "u", "n", "d">>
      [] status = 500 -> <<"I", "n", "t", "e", "r", "n", "a", "l", " ", "S", "e", "r", "v", "e", "r",
                           " ", "E", "r", "r", "o", "r">>
      [] OTHER -> <<"<", "u", "n", "k", "n", "o", "w", "n", " ", "s", "t", "a", "t", "u", "s",
                    " ", "c", "o", "d", "e", ">">>

\* Display of reqwest::StatusCode: "{code} {canonical reason}"
StatusText(status) == Dec(status) \o <<" ">> \o StatusReason(status)

NoData == [is_str |-> FALSE, dec |-> "ok", text |-> <<>>, json |-> FALSE,
           name |-> "absent", typed |-> FALSE, value |-> <<>>]

\* a string data that decrypts to well-formed, well-typed JSON for `value`
GoodData(text, value) == [is_str |-> TRUE, dec |-> "ok", text |-> text, json |-> TRUE,
                          name |-> "text", typed |-> TRUE, value |-> value]

TransportErr(kind, e) ==
    [send |-> kind, err |-> e, status |-> 0, body |-> <<>>, json |-> FALSE,
     code |-> 0, error_msg |-> <<>>, data |-> NoData]

Http(status, body) ==
    [send |-> "ok", err |-> <<>>, status |-> status, body |-> body, json |-> FALSE,
     code |-> 0, error_msg |-> <<>>, data |-> NoData]

Wrapped(code, error_msg, data) ==
    [send |-> "ok", err |-> <<>>, status |-> 200, body |-> <<"{", "}">>, json |-> TRUE,
     code |-> code, error_msg |-> error_msg, data |-> data]

\* the text of a serde_json error
SerdeErr == <<"E", "O", "F">>

NotFoundComic(aid) ==
    Err("NotFound", <<"U+6F2B", "U+753B", " ">> \o Dec(aid) \o <<" ", "U+672A", "U+627E", "U+5230">>)

NoRawCheck(data) == FALSE

raw_missing_comic(data) ==
    \/ Contains(data, <<"\"", "n", "a", "m", "e", "\"", ":", "n", "u", "l", "l">>)
    \/ Contains(data, <<"\"", "n", "a", "m", "e", "\"", ":", " ", "n", "u", "l", "l">>)
    \/ Contains(data, <<"\"", "n", "a", "m", "e", "\"", ":", "\"", "\"">>)
    \/ Contains(data, <<"\"", "n", "a", "m", "e", "\"", ":", " ", "\"", "\"">>)

\* value.get("name"): absent or null, or a string that is blank after trim
is_missing_comic(d) == d.name \in {"absent", "null", "blank"}

\* decrypt_data, by its outcome on the data of the response
decrypt_result(d) ==
    CASE d.dec = "ok" -> Ok(d.text)
      [] d.dec = "panic" -> Panicked
      [] d.dec = "base64" ->
            Err("Internal", <<"B", "a", "s", "e", "6", "4", "U+89E3", "U+7801", "U+5931", "U+8D25",
                              ":", " ">> \o SerdeErr)
      [] OTHER ->
            Err("Internal", <<"U+89E3", "U+5BC6", "U+6570", "U+636E", "U+8F6C", "U", "T", "F", "-", "8",
                              "U+5931", "U+8D25", ":", " ">> \o SerdeErr)

JmClient_login(up) ==
    IF up.send = "send_err" THEN
        Err("Internal", <<"U+767B", "U+5F55", "U+8BF7", "U+6C42", "U+5931", "U+8D25", ":", " ">> \o up.err)
    ELSE IF up.send = "read_err" THEN
        Err("Internal", <<"U+8BFB", "U+53D6", "U+767B", "U+5F55", "U+54CD", "U+5E94", "U+5931", "U+8D25",
                          ":", " ">> \o up.err)
    ELSE IF up.status # 200 THEN
        Err("Internal", <<"L", "o", "g", "i", "n", " ", "f", "a", "i", "l", "e", "d", " ", "w", "i", "t", "h",
                          " ", "s", "t", "a", "t", "u", "s", " ">>
                        \o StatusText(up.status) \o <<":", " ">> \o up.body)
    ELSE IF ~up.json THEN
        Err("Internal", <<"F", "a", "i", "l", "e", "d", " ", "t", "o", " ", "p", "a", "r", "s", "e", " ",
                          "l", "o", "g", "i", "n", " ", "r", "e", "s", "p", "o", "n", "s", "e", ":", " ">>
                        \o up.body \o <<":", " ">> \o SerdeErr)
    ELSE IF up.code # 200 THEN
        Err("Internal", <<"L", "o", "g", "i", "n", " ", "f", "a", "i", "l", "e", "d", " ", "w", "i", "t", "h",
                          " ", "c", "o", "d", "e", " ">>
                        \o Dec(up.code) \o <<":", " ">> \o up.error_msg)
    ELSE Ok("unit")

JmClient_get_comic(aid, up) ==
    IF up.send = "send_err" THEN
        Err("Internal", <<"U+83B7", "U+53D6", "U+6F2B", "U+753B", "U+8BF7", "U+6C42", "U+5931", "U+8D25",
                          ":", " ">> \o up.err)
    ELSE IF up.send = "read_err" THEN
        Err("Internal", <<"U+8BFB", "U+53D6", "U+6F2B", "U+753B", "U+54CD", "U+5E94", "U+5931", "U+8D25",
                          ":", " ">> \o up.err)
    ELSE IF up.status = 404 THEN NotFoundComic(aid)
    ELSE IF up.status # 200 THEN
        Err("Internal", <<"G", "e", "t", " ", "c", "o", "m", "i", "c", " ", "f", "a", "i", "l", "e", "d", " ",
                          "w", "i", "t", "h", " ", "s", "t", "a", "t", "u", "s", " ">>
                        \o StatusText(up.status) \o <<":", " ">> \o up.body)
    ELSE IF ~up.json THEN
        Err("Internal", <<"F", "a", "i", "l", "e", "d", " ", "t", "o", " ", "p", "a", "r", "s", "e", " ",
                          "c", "o", "m", "i", "c", " ", "r", "e", "s", "p", "o", "n", "s", "e", ":", " ">>
                        \o up.body \o <<":", " ">> \o SerdeErr)
    ELSE IF up.code # 200 THEN
        IF up.code = 404 \/ Contains(ToLower(up.error_msg), <<"n", "o", "t", " ", "f", "o", "u", "n", "d">>)
        THEN NotFoundComic(aid)
        ELSE Err("Internal", <<"G", "e", "t", " ", "c", "o", "m", "i", "c", " ", "f", "a", "i", "l", "e", "d",
                               " ", "w", "i", "t", "h", " ", "c", "o", "d", "e", " ">>
                             \o Dec(up.code) \o <<":", " ">> \o up.error_msg)
    ELSE IF ~up.data.is_str THEN
        Err("Internal", <<"C", "o", "m", "i", "c", " ", "d", "a", "t", "a", " ", "i", "s", " ", "n", "o", "t",
                          " ", "a", " ", "s", "t", "r", "i", "n", "g">>)
    ELSE IF ~decrypt_result(up.data).ok THEN decrypt_result(up.data)
    ELSE
        LET decrypted_data == up.data.text
            parse_context == <<"F", "a", "i", "l", "e", "d", " ", "t", "o", " ", "p", "a", "r", "s", "e", " ",
                               "d", "e", "c", "r", "y", "p", "t", "e", "d", " ", "c", "o", "m", "i", "c", " ",
                               "d", "a", "t", "a", ":", " ">> \o decrypted_data
        IN  IF raw_missing_comic(decrypted_data) THEN NotFoundComic(aid)
            ELSE IF ~up.data.json THEN Err("Internal", parse_context \o <<":", " ">> \o SerdeErr)
            ELSE IF is_missing_comic(up.data) THEN NotFoundComic(aid)
            ELSE IF ~up.data.typed THEN Err("Internal", parse_context \o <<":", " ">> \o SerdeErr)
            ELSE Ok(up.data.value)

ChapterNotFoundOn404(id, up) ==
    IF up.send = "ok" /\ (up.status = 404 \/ (up.json /\ up.code = 404)) THEN NotFoundComic(id)
    ELSE Err("Internal", up.body)

JmClient_get_chapter(id, up) ==
    IF up.send = "send_err" THEN
        Err("Internal", <<"U+83B7", "U+53D6", "U+7AE0", "U+8282", "U+8BF7", "U+6C42", "U+5931", "U+8D25",
                          ":", " ">> \o up.err)
    ELSE IF up.send = "read_err" THEN
        Err("Internal", <<"U+8BFB", "U+53D6", "U+7AE0", "U+8282", "U+54CD", "U+5E94", "U+5931", "U+8D25",
                          ":", " ">> \o up.err)
    ELSE IF up.status # 200 THEN
        Err("Internal", <<"G", "e", "t", " ", "c", "h", "a", "p", "t", "e", "r", " ", "f", "a", "i", "l", "e",
                          "d", " ", "w", "i", "t", "h", " ", "s", "t", "a", "t", "u", "s", " ">>
                        \o StatusText(up.status) \o <<":", " ">> \o up.body)
    ELSE IF ~up.json THEN
        Err("Internal", <<"F", "a", "i", "l", "e", "d", " ", "t", "o", " ", "p", "a", "r", "s", "e", " ",
                          "c", "h", "a", "p", "t", "e", "r", " ", "r", "e", "s", "p", "o", "n", "s", "e",
                          ":", " ">> \o up.body \o <<":", " ">> \o SerdeErr)
    ELSE IF up.code # 200 THEN
        Err("Internal", <<"G", "e", "t", " ", "c", "h", "a", "p", "t", "e", "r", " ", "f", "a", "i", "l", "e",
                          "d", " ", "w", "i", "t", "h", " ", "c", "o", "d", "e", " ">>
                        \o Dec(up.code) \o <<":", " ">> \o up.error_msg)
    ELSE IF ~up.data.is_str THEN
        Err("Internal", <<"C", "h", "a", "p", "t", "e", "r", " ", "d", "a", "t", "a", " ", "i", "s", " ", "n",
                          "o", "t", " ", "a", " ", "s", "t", "r", "i", "n", "g">>)
    ELSE IF ~decrypt_result(up.data).ok THEN decrypt_result(up.data)
    ELSE IF ~(up.data.json /\ up.data.typed) THEN
        Err("Internal", <<"F", "a", "i", "l", "e", "d", " ", "t", "o", " ", "p", "a", "r", "s", "e", " ",
                          "d", "e", "c", "r", "y", "p", "t", "e", "d", " ", "c", "h", "a", "p", "t", "e", "r",
                          " ", "d", "a", "t", "a", ":", " ">>
                        \o up.data.text \o <<":", " ">> \o SerdeErr)
    ELSE Ok(up.data.value)

(***************************************************************************)
(* get_scramble_id: the text between the first "var scramble_id = " and    *)
(* the next ';', parsed as an i64, or 220_980.                             *)
(***************************************************************************)
MatchAt(s, sub, i) == i + Len(sub) <= Len(s) /\ \A j \in 1..Len(sub) : s[i + j] = sub[j]

\* the number of characters before the first occurrence of sub in s, or -1
IndexOf(s, sub) ==
    IF Contains(s, sub)
    THEN CHOOSE i \in 0..(Len(s) - Len(sub)) :
            MatchAt(s, sub, i) /\ \A k \in 0..(i - 1) : ~MatchAt(s, sub, k)
    ELSE -1

Drop(s, n) == SubSeq(s, n + 1, Len(s))
Take(s, n) == SubSeq(s, 1, n)

\* s.split(sep).nth(1): the piece after the first sep, up to the second one
SplitNth1(s, sep) ==
    LET i == IndexOf(s, sep)
    IN  IF i < 0 THEN <<>>
        ELSE LET rest == Drop(s, i + Len(sep))
                 j    == IndexOf(rest, sep)
             IN  <<IF j < 0 THEN rest ELSE Take(rest, j)>>

WholeRest(s, sep) == s

\* s.split(sep).next(): the piece before the first sep
SplitFirst(s, sep) ==
    LET i == IndexOf(s, sep) IN IF i < 0 THEN s ELSE Take(s, i)

IsDigit(ch) == ch \in {"0", "1", "2", "3", "4", "5", "6", "7", "8", "9"}
DigitVal(ch) == CHOOSE d \in 0..9 : Digit(d) = ch

RECURSIVE DigitsVal(_)
DigitsVal(s) == IF s = <<>> THEN 0 ELSE DigitsVal(Take(s, Len(s) - 1)) * 10 + DigitVal(s[Len(s)])

\* str::parse::<i64>().ok(): <<n>> or <<>>.  An optional sign, then digits only.
\* (The inputs of the model have at most 9 digits, far from i64's range.)
ParseI64(s) ==
    LET signed == s # <<>> /\ s[1] \in {"+", "-"}
        digits == IF signed THEN Drop(s, 1) ELSE s
    IN  IF digits = <<>> \/ \E i \in 1..Len(digits) : ~IsDigit(digits[i]) \/ Len(digits) > 9
        THEN <<>>
        ELSE <<IF signed /\ s[1] = "-" THEN -DigitsVal(digits) ELSE DigitsVal(digits)>>

ScrambleMarker == <<"v", "a", "r", " ", "s", "c", "r", "a", "m", "b", "l", "e", "_", "i", "d", " ", "=", " ">>

DefaultScrambleId == 220980

extract_scramble_id(body) ==
    LET after == SplitNth1(body, ScrambleMarker)
    IN  IF after = <<>> THEN DefaultScrambleId
        ELSE LET n == ParseI64(SplitFirst(after[1], <<";">>))
             IN  IF n = <<>> THEN DefaultScrambleId ELSE n[1]

JmClient_get_scramble_id(id, up) ==
    IF up.send = "send_err" THEN
        Err("Internal", <<"U+83B7", "U+53D6", " ", "s", "c", "r", "a", "m", "b", "l", "e", "_", "i", "d", " ",
                          "U+8BF7", "U+6C42", "U+5931", "U+8D25", ":", " ">> \o up.err)
    ELSE IF up.send = "read_err" THEN
        Err("Internal", <<"U+8BFB", "U+53D6", " ", "s", "c", "r", "a", "m", "b", "l", "e", "_", "i", "d", " ",
                          "U+54CD", "U+5E94", "U+5931", "U+8D25", ":", " ">> \o up.err)
    ELSE IF up.status # 200 THEN
        Err("Internal", <<"G", "e", "t", " ", "s", "c", "r", "a", "m", "b", "l", "e", "_", "i", "d", " ", "f",
                          "a", "i", "l", "e", "d", " ", "w", "i", "t", "h", " ", "s", "t", "a", "t", "u", "s",
                          " ">> \o StatusText(up.status) \o <<":", " ">> \o up.body)
    ELSE Ok(extract_scramble_id(up.body))

\* the protocol-client operation a session-manager call invokes
ClientCall(o, id, up) ==
    CASE o = "get_comic" -> JmClient_get_comic(id, up)
      [] o = "get_chapter" -> JmClient_get_chapter(id, up)
      [] o = "get_scramble_id" -> JmClient_get_scramble_id(id, up)

(***************************************************************************)
(* The session manager (global_client.rs).  Each caller runs one of        *)
(* get_comic, get_chapter, get_scramble_id at a time; the three share one  *)
(* body.  A caller's pc:                                                   *)
(*   "ensure"   in ensure_session_valid, before reading the flag           *)
(*   "relogin"  in relogin, waiting for the write lock of the flag         *)
(*   "login"    in relogin, holding the write lock, login in flight        *)
(*   "call"     holding a read guard of the client, the call in flight     *)
(*   "mark"     in mark_session_invalid, waiting for the write lock        *)
(*   "done"     returned                                                   *)
(* A guard that is taken, used and dropped with no await in between is one *)
(* step.  tokio's RwLock queues its waiters; the model lets any waiter     *)
(* whose lock is free go next, which allows every order the queue allows.  *)
(***************************************************************************)
\* the concurrent callers, and how many calls they start in all
Callers == {1, 2}
MaxCalls == 2

Ops == {"get_comic", "get_chapter", "get_scramble_id"}
\* the ids a call is made with; the id shows in get_comic's NotFound message
IdsOf(o) == IF o = "get_comic" THEN {7, 401} ELSE {7}

NoResult == Err("none", <<>>)
NoHist == [res |-> <<>>, sent |-> -1, marks |-> 0, repair |-> "none"]

\* What upstream may answer to a session-manager call: success, an expired
\* session (HTTP 401), a server-side failure, and a missing comic.
SomeComic == [name |-> "Foo", series |-> <<>>]
SomeChapter == [images |-> <<"a.webp">>]
SessionUpstream(o) ==
    CASE o = "get_comic" ->
            { Wrapped(200, <<>>, GoodData(<<"{", "}">>, SomeComic)),
              Http(401, <<>>), Http(404, <<>>), Wrapped(500, <<"b", "u", "s", "y">>, NoData) }
      [] o = "get_chapter" ->
            { Wrapped(200, <<>>, GoodData(<<"{", "}">>, SomeChapter)),
              Http(401, <<>>), Wrapped(500, <<"b", "u", "s", "y">>, NoData) }
      [] o = "get_scramble_id" ->
            { Http(200, ScrambleMarker \o <<"7", ";">>), Http(401, <<>>), Http(500, <<>>) }

LoginUpstream == { Wrapped(200, <<>>, NoData),
                   Wrapped(400, <<"b", "a", "d">>, NoData) }

\* get_comic's match on the result of the call: the arm that repairs and
\* retries is taken for an authentication-class error of the first attempt
RetryAlways(st, r) == ~r.ok /\ is_auth_error(r)
RetryAnyError(st, r) == ~r.ok /\ st = "first"
RetryAllowed(st, r) == ~r.ok /\ st = "first" /\ is_auth_error(r)

\* relogin: the write guard of the flag lives until relogin returns
DropsGuardBeforeLogin(c) == NoCaller
LoginGuard(c) == c

\* relogin: the flag after login returned (`?` returns before the assignment)
FlagSetBeforeCheck(login_ok, cur) == TRUE
FlagAfterLogin(login_ok, cur) == IF login_ok THEN TRUE ELSE cur

\* get_client: the read guard is taken and the protocol-client call is issued
SendRequest(c, readers, ep) ==
    /\ pc' = [pc EXCEPT ![c] = "call"]
    /\ clientReaders' = readers \cup {c}
    /\ hist' = [hist EXCEPT ![c].sent = IF @ = -1 THEN ep ELSE @]
    /\ UNCHANGED stage

\* ensure_session_valid or relogin returned Ok(()); how is what relogin did
SessionOk(c, readers, ep, how) ==
    IF stage[c] = "repair"
    THEN /\ pc' = [pc EXCEPT ![c] = "ensure"]
         /\ stage' = [stage EXCEPT ![c] = "retry"]
         /\ clientReaders' = readers
         /\ hist' = [hist EXCEPT ![c].repair = how]
    ELSE SendRequest(c, readers, ep)

Call(c) ==
    /\ pc[c] = "idle"
    /\ nstarted < MaxCalls
    /\ nstarted' = nstarted + 1
    /\ \E o \in Ops :
        \E id \in IdsOf(o) :
            /\ op' = [op EXCEPT ![c] = o]
            /\ arg' = [arg EXCEPT ![c] = id]
    /\ pc' = [pc EXCEPT ![c] = "ensure"]
    /\ stage' = [stage EXCEPT ![c] = "first"]
    /\ hist' = [hist EXCEPT ![c] = NoHist]
    /\ ret' = [ret EXCEPT ![c] = NoResult]
    /\ UNCHANGED <<session_valid, flagWriter, clientReaders, epoch>>

ensure_session_valid(c) ==
    /\ pc[c] = "ensure"
    /\ flagWriter = NoCaller
    /\ IF session_valid
       THEN SessionOk(c, clientReaders, epoch, "none")
       ELSE /\ pc' = [pc EXCEPT ![c] = "relogin"]
            /\ UNCHANGED <<stage, clientReaders, hist>>
    /\ UNCHANGED <<session_valid, flagWriter, op, arg, ret, epoch, nstarted>>

relogin(c) ==
    /\ pc[c] = "relogin"
    /\ flagWriter = NoCaller
    /\ IF session_valid
       THEN /\ SessionOk(c, clientReaders, epoch, "skipped")
            /\ UNCHANGED flagWriter
       ELSE /\ flagWriter' = LoginGuard(c)
            /\ clientReaders' = clientReaders \cup {c}
            /\ pc' = [pc EXCEPT ![c] = "login"]
            /\ UNCHANGED <<stage, hist>>
    /\ UNCHANGED <<session_valid, op, arg, ret, epoch, nstarted>>

\* what the protocol client returns for each request of a caller and each
\* upstream answer to it
client_answer ==
    [k \in UNION {{<<o, id, up>> : id \in IdsOf(o), up \in SessionUpstream(o)} : o \in Ops}
        |-> ClientCall(k[1], k[2], k[3])]

\* a relogin that returned without dropping its write guard
GuardKept(w, c) == w

\* relogin returns: its write guard on session_valid goes out of scope
guard_dropped(w, c) == IF w = c THEN NoCaller ELSE w

login_returns(c) ==
    /\ pc[c] = "login"
    /\ \E up \in LoginUpstream :
        LET r == JmClient_login(up)
        IN  /\ session_valid' = FlagAfterLogin(r.ok, session_valid)
            /\ epoch' = IF r.ok THEN epoch + 1 ELSE epoch
            /\ flagWriter' = guard_dropped(flagWriter, c)
            /\ IF r.ok
               THEN /\ SessionOk(c, clientReaders \ {c}, epoch + 1, "login_ok")
                    /\ UNCHANGED ret
               ELSE /\ pc' = [pc EXCEPT ![c] = "done"]
                    /\ ret' = [ret EXCEPT ![c] = r]
                    /\ clientReaders' = clientReaders \ {c}
                    /\ hist' = [hist EXCEPT ![c].repair =
                                    IF stage[c] = "repair" THEN "login_err" ELSE @]
                    /\ UNCHANGED stage
    /\ UNCHANGED <<op, arg, nstarted>>

call_returns(c) ==
    /\ pc[c] = "call"
    /\ \E up \in SessionUpstream(op[c]) :
        \E r \in {client_answer[<<op[c], arg[c], up>>]} :
            /\ hist' = [hist EXCEPT ![c].res = Append(@, r)]
            /\ IF RetryAllowed(stage[c], r)
               THEN /\ pc' = [pc EXCEPT ![c] = "mark"]
                    /\ UNCHANGED ret
               ELSE /\ pc' = [pc EXCEPT ![c] = "done"]
                    /\ ret' = [ret EXCEPT ![c] = r]
    /\ clientReaders' = clientReaders \ {c}
    /\ UNCHANGED <<session_valid, flagWriter, stage, op, arg, epoch, nstarted>>

mark_session_invalid(c) ==
    /\ pc[c] = "mark"
    /\ flagWriter = NoCaller
    /\ session_valid' = FALSE
    /\ pc' = [pc EXCEPT ![c] = "relogin"]
    /\ stage' = [stage EXCEPT ![c] = "repair"]
    /\ hist' = [hist EXCEPT ![c].marks = @ + 1]
    /\ UNCHANGED <<flagWriter, clientReaders, op, arg, ret, epoch, nstarted>>

\* the caller has its result; what the call left behind is forgotten
Return(c) ==
    /\ pc[c] = "done"
    /\ pc' = [pc EXCEPT ![c] = "idle"]
    /\ stage' = [stage EXCEPT ![c] = "first"]
    /\ op' = [op EXCEPT ![c] = "get_comic"]
    /\ arg' = [arg EXCEPT ![c] = 7]
    /\ ret' = [ret EXCEPT ![c] = NoResult]
    /\ hist' = [hist EXCEPT ![c] = NoHist]
    /\ UNCHANGED <<session_valid, flagWriter, clientReaders, epoch, nstarted>>

(***************************************************************************)
(* The download orchestrator (handlers.rs, image_processor.rs).            *)
(* Each request is one downloadChapter or downloadComic call; requests may *)
(* overlap.  The calls into the session manager are taken by their result. *)
(* The disk is the set of chapter directories and the set of page files;   *)
(* an expiry timer is a pending remove_dir_all.  A request's dpc:          *)
(*   "get_comic"        awaiting global_client.get_comic                   *)
(*   "get_chapter"      awaiting global_client.get_chapter                 *)
(*   "get_scramble_id"  awaiting global_client.get_scramble_id             *)
(*   "join"             page tasks spawned, in the join_next loop          *)
(*   "done"             the handler returned; its locals are dropped       *)
(* A page task: "queued" (waiting for a permit), "permit" (permit held,    *)
(* before the existence check), "fetch" (download_image in flight),        *)
(* "save" (the file is created and being written), "finished" (returned    *)
(* an error that is not yet joined), "joined".                             *)
(***************************************************************************)
\* the requests served, numbered in the order they arrive
Requests == {1, 2}
\* config.img_concurrency
ImgConcurrency == 1

\* format!("{:04}", n)
Pad4(n) ==
    LET d == DecNat(n)
    IN  IF Len(d) >= 4 THEN d ELSE [i \in 1..(4 - Len(d)) |-> "0"] \o d

\* format!("{:04}.png", index + 1), index counted from 0
save_filename(index) == Pad4(index + 1) \o <<".", "p", "n", "g">>

\* format!("download/{}/{}/{}", comic_id, chapter_id, save_filename)
relative_path(comic_id, chapter_id, index) ==
    <<"d", "o", "w", "n", "l", "o", "a", "d", "/">> \o Dec(comic_id) \o <<"/">>
        \o Dec(chapter_id) \o <<"/">> \o save_filename(index)

\* create_download_dir: ./download/{comic_id}/{chapter_id}
chapter_dir(comic_id, chapter_id) ==
    <<".", "/", "d", "o", "w", "n", "l", "o", "a", "d", "/">> \o Dec(comic_id) \o <<"/">>
        \o Dec(chapter_id)

\* chapter_dir.join(&save_filename)
save_path(dir, index) == dir \o <<"/">> \o save_filename(index)

\* whether a file lies in a directory
InDir(path, dir) == Len(path) > Len(dir) + 1 /\ Take(path, Len(dir) + 1) = dir \o <<"/">>

\* std::fs::remove_dir_all on the files of the disk
remove_dir_all(fs, dir) == {p \in fs : ~InDir(p, dir)}

\* Upstream: comic 7 has the chapters 11 and 12, comic 9 is a single volume.
SeriesComic == [name |-> "Bar", series |-> << [id |-> <<"1", "1">>, name |-> "one"],
                                              [id |-> <<"1", "2">>, name |-> "two"] >>]
Catalogue(comic_id) == IF comic_id = 7 THEN SeriesComic ELSE SomeComic
\* the pages of a chapter
MaxPages == 2
PagesOf(chapter_id) ==
    CASE chapter_id = 12 -> 1 [] chapter_id = 9 -> 2 [] OTHER -> MaxPages
Manifest(chapter_id) ==
    [images |-> [i \in 1..PagesOf(chapter_id) |-> DecNat(i) \o <<".", "w", "e", "b", "p">>]]

\* what upstream answers during a download: the data, or a server failure
DownloadUpstream(o, id) ==
    CASE o = "get_comic" ->
            { Wrapped(200, <<>>, GoodData(<<"{", "}">>, Catalogue(id))), Http(500, <<>>) }
      [] o = "get_chapter" ->
            { Wrapped(200, <<>>, GoodData(<<"{", "}">>, Manifest(id))), Http(500, <<>>) }
      [] o = "get_scramble_id" ->
            { Http(200, ScrambleMarker \o <<"7", ";">>), Http(500, <<>>) }

\* the results a session-manager call can hand to a handler
GlobalResults(o, id) == {ClientCall(o, id, up) : up \in DownloadUpstream(o, id)}

\* the requests clients send
\* A request body.  DownloadChapterRequest has no merge and no encrypt field,
\* DownloadComicRequest no chapter_ids: a body carries the defaults there.
ChapterRequest(comic_id, chapter_ids, expire_seconds) ==
    [kind |-> "chapter", comic_id |-> comic_id, chapter_ids |-> chapter_ids,
     expire_seconds |-> expire_seconds, merge |-> FALSE, encrypt |-> <<>>]
ComicRequest(comic_id, merge, encrypt, expire_seconds) ==
    [kind |-> "comic", comic_id |-> comic_id, chapter_ids |-> <<>>,
     expire_seconds |-> expire_seconds, merge |-> merge, encrypt |-> encrypt]

DownloadInputs ==
    { ChapterRequest(7, <<12, 11>>, -1),
      ChapterRequest(7, <<12, 12>>, 0),
      ChapterRequest(7, <<>>, 0),
      ComicRequest(9, FALSE, <<>>, 0) }
NoInput == [kind |-> "none", comic_id |-> 0, chapter_ids |-> <<>>, expire_seconds |-> -1,
            merge |-> FALSE, encrypt |-> <<>>]
NoComic == [name |-> "", series |-> <<>>]

AllDirs == {chapter_dir(7, 11), chapter_dir(7, 12), chapter_dir(9, 9)}

\* merged.pdf of a directory: absent, as merge_images_to_pdf wrote it, or as
\* the compressor left it, run with the password arguments pw
NoPdf == [stage |-> "none", pw |-> <<>>]
MergedPdf == [stage |-> "merged", pw |-> <<>>]
CompressedPdf(password) == [stage |-> "compressed", pw |-> password]

\* format!("download/{}/{}/{}", comic_id, chapter_id, "merged.pdf")
pdf_relative_path(comic_id, chapter_id) ==
    <<"d", "o", "w", "n", "l", "o", "a", "d", "/">> \o Dec(comic_id) \o <<"/">>
        \o Dec(chapter_id) \o <<"/", "m", "e", "r", "g", "e", "d", ".", "p", "d", "f">>

\* str::trim
IsSpace(c) == c \in {" ", "\t"}
RECURSIVE TrimStart(_)
TrimStart(t) == IF t # <<>> /\ IsSpace(t[1]) THEN TrimStart(Tail(t)) ELSE t
RECURSIVE TrimEnd(_)
TrimEnd(t) == IF t # <<>> /\ IsSpace(t[Len(t)]) THEN TrimEnd(Take(t, Len(t) - 1)) ELSE t
Trim(t) == TrimEnd(TrimStart(t))

\* request.encrypt.as_deref().map(str::trim).filter(|value| !value.is_empty())
pdf_password(encrypt) ==
    IF encrypt = <<>> \/ Trim(encrypt[1]) = <<>> THEN <<>> ELSE <<Trim(encrypt[1])>>

\* the password arguments of the gs command line
gs_password_args(password) ==
    IF password = <<>> THEN <<>>
    ELSE << <<"-", "s", "U", "s", "e", "r", "P", "a", "s", "s", "w", "o", "r", "d", "=">> \o password[1],
            <<"-", "s", "O", "w", "n", "e", "r", "P", "a", "s", "s", "w", "o", "r", "d", "=">> \o password[1] >>

\* tokio::fs::metadata(&pdf_full_path).await.is_ok()
NoPdfCache(p) == FALSE
PdfExists(p) == p.stage # "none"

\* the chapter a request is working on
chapter_id_of(r) ==
    IF req[r].kind = "comic" THEN req[r].comic_id ELSE req[r].chapter_ids[pos[r]]
\* the directories a request writes into
DirsOf(input) ==
    IF input.kind = "comic" THEN {chapter_dir(input.comic_id, input.comic_id)}
    ELSE {chapter_dir(input.comic_id, input.chapter_ids[j]) : j \in 1..Len(input.chapter_ids)}

\* tasks that hold a permit of the request's semaphore
Holding == {"permit", "fetch", "save"}
held(r) == Cardinality({i \in DOMAIN task[r] : task[r][i] \in Holding})

\* the chapter lookup of download_chapter: the title, or NotFound
chapter_name(c, comic_id, chapter_id) ==
    IF c.series = <<>> THEN
        IF chapter_id # comic_id THEN
            Err("NotFound", <<"U+7AE0", "U+8282", " ">> \o Dec(chapter_id)
                    \o <<" ", "U+4E0D", "U+5B58", "U+5728", "U+FF0C", "U+8BE5", "U+6F2B", "U+753B",
                         "U+4E3A", "U+666E", "U+901A", "U+6F2B", "U+753B", "U+FF0C", "U+7AE0", "U+8282",
                         "I", "D", "U+5E94", "U+7B49", "U+4E8E", "U+6F2B", "U+753B", "I", "D", " ">>
                    \o Dec(comic_id))
        ELSE Ok(<<"U+7B2C", "1", "U+8BDD">>)
    ELSE
        LET hits == {j \in 1..Len(c.series) : ParseI64(c.series[j].id) = <<chapter_id>>}
        IN  IF hits = {} THEN
                Err("NotFound", <<"U+7AE0", "U+8282", " ">> \o Dec(chapter_id)
                        \o <<" ", "U+4E0D", "U+5B58", "U+5728">>)
            ELSE Ok(c.series[CHOOSE j \in hits : \A h \in hits : j <= h].name)

Unsorted(s) == s
\* images.sort_by_key(|(index, _)| *index): a stable sort on the index
RECURSIVE sort_by_key(_)
sort_by_key(s) ==
    IF s = <<>> THEN <<>>
    ELSE LET rest == sort_by_key(Take(s, Len(s) - 1))
             x == s[Len(s)]
             n == Cardinality({j \in 1..Len(rest) : rest[j][1] <= x[1]})
         IN  Take(rest, n) \o <<x>> \o Drop(rest, n)

\* images.into_iter().map(|(_, path)| path).collect()
paths_of(s) == [j \in 1..Len(s) |-> s[j][2]]

\* Semaphore::acquire completes when a permit is available
AcquireAlways(n) == TRUE
PermitAvailable(n) == n > 0

IgnoresFailed(r) == \A i \in DOMAIN task[r] : task[r][i] \in {"joined", "finished"}

\* join_next returns None when the JoinSet holds no task
NothingFinished(r) == finished[r] = <<>>
JoinSetEmpty(r) == \A i \in DOMAIN task[r] : task[r][i] = "joined"

\* ChapterDownloadData / ComicDownloadData
ChapterDownloadData(r, cs) ==
    [comic_id |-> req[r].comic_id, comic_title |-> comic[r].name, chapters |-> cs]
ImagesAlways(merge, imgs) == <<imgs>>
\* images: if merge { None } else { Some(images) }
images_field(merge, imgs) == IF merge THEN <<>> ELSE <<imgs>>
ComicDownloadData(r, imgs) ==
    [comic_id |-> req[r].comic_id, comic_title |-> comic[r].name,
     images |-> images_field(req[r].merge, imgs),
     pdf_path |-> IF req[r].merge
                  THEN <<pdf_relative_path(req[r].comic_id, req[r].comic_id)>> ELSE <<>>]
\* the response of the merged.pdf cache hit
CachedComicData(r) ==
    [comic_id |-> req[r].comic_id, comic_title |-> comic[r].name, images |-> <<>>,
     pdf_path |-> <<pdf_relative_path(req[r].comic_id, req[r].comic_id)>>]

\* how a request stands to an earlier one with the same input
Standing(input) ==
    IF input \in intact THEN "intact"
    ELSE IF prior[input] # <<>> THEN "repeat" ELSE "first"

\* The handler returns.  Dropping the JoinSet aborts the page tasks that are
\* still in it, and their permits go back.
Returns(r, result) ==
    /\ dpc' = [dpc EXCEPT ![r] = "done"]
    /\ resp' = [resp EXCEPT ![r] = result]
    /\ task' = [task EXCEPT ![r] = <<>>]
    /\ finished' = [finished EXCEPT ![r] = <<>>]
    /\ permits' = [permits EXCEPT ![r] = permits[r] + held(r)]
    /\ IF result.ok /\ req[r].kind = "chapter"
       THEN /\ prior' = [prior EXCEPT ![req[r]] = result.val]
            /\ intact' = IF clean[r] THEN intact \cup {req[r]} ELSE intact
       ELSE UNCHANGED <<prior, intact>>

\* The handler goes on to its next await.
Continue(r, next) ==
    /\ dpc' = [dpc EXCEPT ![r] = next]
    /\ UNCHANGED <<resp, task, finished, permits, prior, intact>>

LooksUpAfterFetch(r, k, c) == pos' = [pos EXCEPT ![r] = k] /\ Continue(r, "get_chapter")

\* the head of the loop over chapter_ids, up to the get_chapter call
EnterChapter(r, k, c) ==
    LET nm == chapter_name(c, req[r].comic_id, req[r].chapter_ids[k])
    IN  IF nm.ok THEN pos' = [pos EXCEPT ![r] = k] /\ Continue(r, "get_chapter")
        ELSE UNCHANGED pos /\ Returns(r, nm)

\* expire_seconds is -1 or not negative
AnyExpire(expire_seconds) == TRUE
ValidExpire(expire_seconds) == expire_seconds >= -1

\* the comic has a chapter list
NeverChapterComic(c) == FALSE
is_chapter_comic(c) == c.series # <<>>

BadExpire ==
    Err("BadRequest", <<"U+8FC7", "U+671F", "U+65F6", "U+95F4", "U+5FC5", "U+987B", "U+4E3A", "-", "1",
                        "U+6216", "U+975E", "U+8D1F", "U+6570">>)

\* a request arrives: validation, then the get_comic call
Arrive(r, input) ==
    /\ dpc[r] = "idle"
    /\ \A q \in Requests : q < r => dpc[q] # "idle"
    /\ req' = [req EXCEPT ![r] = input]
    /\ standing' = [standing EXCEPT ![r] = Standing(input)]
    /\ clean' = [clean EXCEPT ![r] = TRUE]
    /\ UNCHANGED <<comic, pos, manifest, images, chapters, dirs, files, timers, fetches, envfail,
                   pdf, now, offered, calls, made, sched>>

download_chapter(r) ==
    \E input \in {i \in offered : i.kind = "chapter"} :
        /\ Arrive(r, input)
        /\ IF input.chapter_ids = <<>> THEN
               Returns(r, Err("BadRequest", <<"U+7AE0", "U+8282", "I", "D", "U+5217", "U+8868", "U+4E0D",
                                              "U+80FD", "U+4E3A", "U+7A7A">>))
           ELSE IF ~ValidExpire(input.expire_seconds) THEN Returns(r, BadExpire)
           ELSE Continue(r, "get_comic")

download_comic(r) ==
    \E input \in {i \in offered : i.kind = "comic"} :
        /\ Arrive(r, input)
        /\ IF ~ValidExpire(input.expire_seconds) THEN Returns(r, BadExpire)
           ELSE Continue(r, "get_comic")

get_comic_returns(r) ==
    /\ dpc[r] = "get_comic"
    /\ \E res \in GlobalResults("get_comic", req[r].comic_id) :
          IF ~res.ok THEN
              /\ Returns(r, res)
              /\ envfail' = [envfail EXCEPT ![r] = TRUE]
              /\ UNCHANGED <<comic, pos>>
          ELSE
              /\ comic' = [comic EXCEPT ![r] = res.val[1]]
              /\ UNCHANGED envfail
              /\ IF req[r].kind = "chapter" THEN EnterChapter(r, 1, res.val[1])
                 ELSE IF is_chapter_comic(res.val[1]) THEN
                     /\ UNCHANGED pos
                     /\ Returns(r, Err("BadRequest",
                            <<"U+8BE5", "U+6F2B", "U+753B", "U+4E3A", "U+7AE0", "U+8282", "U+6F2B", "U+753B",
                              "U+FF0C", "U+8BF7", "U+4F7F", "U+7528", " ", "/", "a", "p", "i", "/", "c", "o",
                              "m", "i", "c", "/", "d", "o", "w", "n", "l", "o", "a", "d", "C", "h", "a", "p",
                              "t", "e", "r", " ", "U+63A5", "U+53E3", "U+5E76", "U+6307", "U+5B9A", "U+7AE0",
                              "U+8282", "I", "D">>))
                 ELSE UNCHANGED pos /\ Continue(r, "get_chapter")
    /\ calls' = [calls EXCEPT ![r] = @ \cup {<<"get_comic", req[r].comic_id>>}]
    /\ UNCHANGED <<req, manifest, images, chapters, dirs, files, timers, fetches, clean, standing,
                   pdf, now, offered, made, sched>>

get_chapter_returns(r) ==
    /\ dpc[r] = "get_chapter"
    /\ \E res \in GlobalResults("get_chapter", chapter_id_of(r)) :
          IF ~res.ok THEN
              /\ Returns(r, res)
              /\ envfail' = [envfail EXCEPT ![r] = TRUE]
              /\ UNCHANGED manifest
          ELSE
              /\ manifest' = [manifest EXCEPT ![r] = res.val[1].images]
              /\ Continue(r, "get_scramble_id")
              /\ UNCHANGED envfail
    /\ calls' = [calls EXCEPT ![r] = @ \cup {<<"get_chapter", chapter_id_of(r)>>}]
    /\ UNCHANGED <<req, comic, pos, images, chapters, dirs, files, timers, fetches, clean, standing,
                   pdf, now, offered, made, sched>>

\* the page tasks are spawned and the handler waits in join_next
Spawn(r) ==
    /\ task' = [task EXCEPT ![r] = [i \in 1..Len(manifest[r]) |-> "queued"]]
    /\ finished' = [finished EXCEPT ![r] = <<>>]
    /\ images' = [images EXCEPT ![r] = <<>>]
    /\ dpc' = [dpc EXCEPT ![r] = "join"]

\* get_scramble_id returns; then create_download_dir, and either the page
\* tasks are spawned, all without an await, or (downloadComic with merge)
\* the handler looks for merged.pdf
get_scramble_id_returns(r) ==
    /\ dpc[r] = "get_scramble_id"
    /\ \E res \in GlobalResults("get_scramble_id", chapter_id_of(r)), created \in BOOLEAN :
          IF ~res.ok \/ ~created THEN
              /\ Returns(r, IF ~res.ok THEN res
                            ELSE Err("Internal", <<"U+521B", "U+5EFA", "U+76EE", "U+5F55", " ">>
                                        \o chapter_dir(req[r].comic_id, chapter_id_of(r))
                                        \o <<" ", "U+5931", "U+8D25", ":", " ">>))
              /\ envfail' = [envfail EXCEPT ![r] = TRUE]
              /\ UNCHANGED <<dirs, images, made>>
          ELSE
              /\ dirs' = dirs \cup {chapter_dir(req[r].comic_id, chapter_id_of(r))}
              /\ made' = [made EXCEPT ![r] = @ \cup {chapter_dir(req[r].comic_id, chapter_id_of(r))}]
              /\ IF req[r].kind = "comic" /\ req[r].merge
                 THEN dpc' = [dpc EXCEPT ![r] = "pdf_check"] /\ UNCHANGED <<task, finished, images>>
                 ELSE Spawn(r)
              /\ UNCHANGED <<resp, permits, prior, intact, envfail>>
    /\ calls' = [calls EXCEPT ![r] = @ \cup {<<"get_scramble_id", chapter_id_of(r)>>}]
    /\ UNCHANGED <<req, comic, pos, manifest, chapters, files, timers, fetches, clean, standing,
                   pdf, now, offered, sched>>

\* the save path of page task i (index i - 1) of the request's chapter
task_path(r, i) == save_path(chapter_dir(req[r].comic_id, chapter_id_of(r)), i - 1)

\* A page task returns an error: its permit is dropped and the JoinSet has
\* its result.
TaskErr(r, i, e) ==
    /\ task' = [task EXCEPT ![r][i] = "finished"]
    /\ finished' = [finished EXCEPT ![r] = Append(@, e)]
    /\ permits' = [permits EXCEPT ![r] = @ + 1]
    /\ UNCHANGED images

\* A page task returns (index, relative_path): its permit is dropped, and
\* join_next hands the pair to the handler, which pushes it.  The push is
\* taken in the same step: it changes nothing a task or another request
\* reads.
TaskOk(r, i) ==
    /\ task' = [task EXCEPT ![r][i] = "joined"]
    /\ images' = [images EXCEPT ![r] =
                     Append(@, <<i - 1, relative_path(req[r].comic_id, chapter_id_of(r), i - 1)>>)]
    /\ permits' = [permits EXCEPT ![r] = @ + 1]
    /\ UNCHANGED finished

\* semaphore.acquire().await
acquire(r, i) ==
    /\ dpc[r] = "join"
    /\ task[r][i] = "queued"
    /\ PermitAvailable(permits[r])
    /\ task' = [task EXCEPT ![r][i] = "permit"]
    /\ permits' = [permits EXCEPT ![r] = @ - 1]
    /\ UNCHANGED <<dpc, req, comic, pos, manifest, finished, images, chapters, resp, dirs, files,
                   timers, fetches, clean, standing, prior, intact, envfail,
                   pdf, now, offered, calls, made, sched>>

\* an existing file is a cache hit
AlwaysFetch(r, i) == FALSE
CacheHit(r, i) == task_path(r, i) \in files

\* tokio::fs::metadata(&save_path): a hit returns, a miss sends the request
metadata_returns(r, i) ==
    /\ dpc[r] = "join"
    /\ task[r][i] = "permit"
    /\ IF CacheHit(r, i) THEN TaskOk(r, i) /\ UNCHANGED fetches
       ELSE /\ task' = [task EXCEPT ![r][i] = "fetch"]
            /\ fetches' = [fetches EXCEPT ![r] = @ + 1]
            /\ UNCHANGED <<finished, permits, images>>
    /\ UNCHANGED <<dpc, req, comic, pos, manifest, chapters, resp, dirs, files, timers,
                   clean, standing, prior, intact, envfail, pdf, now, offered, calls, made, sched>>

\* download_image returns; on bytes, process_and_save_image tells the
\* format, decodes and creates the file
download_image_returns(r, i) ==
    /\ dpc[r] = "join"
    /\ task[r][i] = "fetch"
    /\ \E outcome \in {"fetch_err", "image"} :
          CASE outcome = "fetch_err" ->
                  /\ TaskErr(r, i, Err("Internal", <<"U+4E0B", "U+8F7D", "U+56FE", "U+7247",
                                                     "U+5931", "U+8D25">>))
                  /\ UNCHANGED files
            [] outcome = "image" ->
                  IF chapter_dir(req[r].comic_id, chapter_id_of(r)) \in dirs THEN
                      /\ files' = files \cup {task_path(r, i)}
                      /\ task' = [task EXCEPT ![r][i] = "save"]
                      /\ UNCHANGED <<finished, permits, images>>
                  ELSE
                      /\ TaskErr(r, i, Err("Internal", <<"U+4FDD", "U+5B58", "U+56FE", "U+7247",
                                                         "U+5230", " ">> \o task_path(r, i)))
                      /\ UNCHANGED files
    /\ UNCHANGED <<dpc, req, comic, pos, manifest, chapters, resp, dirs, timers, fetches,
                   clean, standing, prior, intact, envfail, pdf, now, offered, calls, made, sched>>

\* the write of the file completes
save_returns(r, i) ==
    /\ dpc[r] = "join"
    /\ task[r][i] = "save"
    /\ TaskOk(r, i)
    /\ UNCHANGED <<dpc, req, comic, pos, manifest, chapters, resp, dirs, files, timers,
                   fetches, clean, standing, prior, intact, envfail, pdf, now, offered, calls, made,
                   sched>>

\* join_next yields the error of a failed task: the handler returns it
join_next_err(r) ==
    /\ dpc[r] = "join"
    /\ finished[r] # <<>>
    /\ Returns(r, finished[r][1])
    /\ UNCHANGED <<req, comic, pos, manifest, images, chapters, dirs, files, timers, fetches, clean,
                   standing, envfail, pdf, now, offered, calls, made, sched>>

\* schedule_delete_dir
\* a wake-up time put into an ascending list
Insert(s, x) ==
    LET n == Cardinality({j \in 1..Len(s) : s[j] <= x})
    IN  Take(s, n) \o <<x>> \o Drop(s, n)

Reschedules(t, path, expire_seconds) ==
    IF expire_seconds < 0 THEN t ELSE [t EXCEPT ![path] = <<now + expire_seconds>>]

\* schedule_delete_dir: nothing when expire_seconds < 0; else a spawned task
\* that sleeps expire_seconds (not at all when 0) and then removes the path
schedule_delete_dir(t, path, expire_seconds) ==
    IF expire_seconds < 0 THEN t ELSE [t EXCEPT ![path] = Insert(@, now + expire_seconds)]
\* what the request has scheduled
Scheduled(r, path) ==
    IF req[r].expire_seconds < 0 THEN sched[r] ELSE Append(sched[r], path)

\* join_next yields None: the chapter is complete; sort, then (downloadComic
\* with merge) go on to the merge, or push, schedule the removal, and go on
\* to the next chapter or return the response
join_next_none(r) ==
    /\ dpc[r] = "join"
    /\ JoinSetEmpty(r)
    /\ LET sorted == paths_of(sort_by_key(images[r]))
           title == chapter_name(comic[r], req[r].comic_id, chapter_id_of(r)).val[1]
           all == Append(chapters[r], [chapter_id |-> chapter_id_of(r), chapter_title |-> title,
                                       images |-> sorted])
       IN  IF req[r].kind = "comic" /\ req[r].merge THEN
               /\ Continue(r, "merge")
               /\ UNCHANGED <<timers, sched, pos, chapters>>
           ELSE
               /\ timers' = schedule_delete_dir(timers, chapter_dir(req[r].comic_id, chapter_id_of(r)),
                                                req[r].expire_seconds)
               /\ sched' = [sched EXCEPT ![r] = Scheduled(r, chapter_dir(req[r].comic_id, chapter_id_of(r)))]
               /\ IF req[r].kind = "comic" THEN
                      /\ Returns(r, Ok(ComicDownloadData(r, sorted)))
                      /\ UNCHANGED <<pos, chapters>>
                  ELSE
                      /\ chapters' = [chapters EXCEPT ![r] = all]
                      /\ IF pos[r] < Len(req[r].chapter_ids) THEN EnterChapter(r, pos[r] + 1, comic[r])
                         ELSE UNCHANGED pos /\ Returns(r, Ok(ChapterDownloadData(r, all)))
    /\ UNCHANGED <<req, comic, manifest, images, dirs, files, fetches, clean, standing, envfail,
                   pdf, now, offered, calls, made>>

\* the merged.pdf check of downloadComic with merge returns: a hit
\* schedules the removal and returns the path, a miss spawns the page tasks
pdf_check_returns(r) ==
    /\ dpc[r] = "pdf_check"
    /\ LET dir == chapter_dir(req[r].comic_id, chapter_id_of(r))
       IN  IF PdfExists(pdf[dir]) THEN
               /\ timers' = schedule_delete_dir(timers, dir, req[r].expire_seconds)
               /\ sched' = [sched EXCEPT ![r] = Scheduled(r, dir)]
               /\ Returns(r, Ok(CachedComicData(r)))
               /\ UNCHANGED images
           ELSE
               /\ Spawn(r)
               /\ UNCHANGED <<resp, permits, prior, intact, timers, sched>>
    /\ UNCHANGED <<req, comic, pos, manifest, chapters, dirs, files, fetches, clean, standing,
                   envfail, pdf, now, offered, calls, made>>

\* the save paths of the joined pages, sorted by index
image_files(r) ==
    LET sorted == sort_by_key(images[r])
    IN  [j \in 1..Len(sorted) |->
            save_path(chapter_dir(req[r].comic_id, chapter_id_of(r)), sorted[j][1])]

\* merge_images_to_pdf returns: every image is opened, then merged.pdf is
\* created at its final path and written
merge_images_to_pdf_returns(r) ==
    /\ dpc[r] = "merge"
    /\ calls' = [calls EXCEPT ![r] = @ \cup {<<"merge", chapter_id_of(r)>>}]
    /\ LET paths == image_files(r)
           missing == {j \in DOMAIN paths : paths[j] \notin files}
       IN  IF paths = <<>> THEN
               /\ Returns(r, Err("Internal", <<"U+6CA1", "U+6709", "U+53EF", "U+5408", "U+5E76",
                                               "U+7684", "U+56FE", "U+7247">>))
               /\ UNCHANGED pdf
           ELSE IF missing # {} THEN
               /\ Returns(r, Err("Internal", <<"U+8BFB", "U+53D6", "U+56FE", "U+7247", "U+5931",
                                               "U+8D25", ":", " ">>
                                   \o paths[CHOOSE j \in missing : \A k \in missing : j <= k]))
               /\ UNCHANGED pdf
           ELSE
               /\ pdf' = [pdf EXCEPT ![chapter_dir(req[r].comic_id, chapter_id_of(r))] = MergedPdf]
               /\ Continue(r, "compress")
    /\ UNCHANGED <<req, comic, pos, manifest, images, chapters, dirs, files, timers, fetches, clean,
                   standing, envfail, now, offered, made, sched>>

\* compress_pdf_with_gs returns: gs read merged.pdf and wrote merged.pdf.tmp,
\* which is renamed over merged.pdf; or gs failed (as it does on a missing
\* or password-protected input).  On success the removal is scheduled and
\* the response returned.
compress_pdf_with_gs_returns(r) ==
    /\ dpc[r] = "compress"
    /\ calls' = [calls EXCEPT ![r] = @ \cup {<<"gs", chapter_id_of(r)>>}]
    /\ LET dir == chapter_dir(req[r].comic_id, chapter_id_of(r))
       IN  \E status \in {"success", "failure"} :
              IF status = "success" /\ PdfExists(pdf[dir]) /\ pdf[dir].pw = <<>> THEN
                  /\ pdf' = [pdf EXCEPT ![dir] =
                                CompressedPdf(gs_password_args(pdf_password(req[r].encrypt)))]
                  /\ timers' = schedule_delete_dir(timers, dir, req[r].expire_seconds)
                  /\ sched' = [sched EXCEPT ![r] = Scheduled(r, dir)]
                  /\ Returns(r, Ok(ComicDownloadData(r, paths_of(sort_by_key(images[r])))))
              ELSE
                  /\ Returns(r, Err("Internal", <<"G", "h", "o", "s", "t", "S", "c", "r", "i", "p", "t",
                                                  "U+5904", "U+7406", "U+5931", "U+8D25", ":", " ">>))
                  /\ UNCHANGED <<pdf, timers, sched>>
    /\ UNCHANGED <<req, comic, pos, manifest, images, chapters, dirs, files, fetches, clean,
                   standing, envfail, now, offered, made>>

\* a list without its j-th element
Without(s, j) == Take(s, j - 1) \o Drop(s, j)

AwakeAtOnce(due) == TRUE

\* the sleep of a spawned removal is over
Awake(due) == due <= now

\* An expiry task whose sleep is over runs remove_dir_all; a failure (the
\* directory is not there) is only logged.
expire(d) ==
    /\ \E j \in DOMAIN timers[d] :
          /\ Awake(timers[d][j])
          /\ timers' = [timers EXCEPT ![d] = Without(@, j)]
    /\ IF d \in dirs THEN
           /\ dirs' = dirs \ {d}
           /\ files' = remove_dir_all(files, d)
           /\ pdf' = [pdf EXCEPT ![d] = NoPdf]
           /\ intact' = {input \in intact : d \notin DirsOf(input)}
           /\ clean' = [r \in Requests |-> clean[r] /\ d \notin DirsOf(req[r])]
           /\ standing' = [r \in Requests |->
                           IF standing[r] = "intact" /\ d \in DirsOf(req[r]) THEN "repeat" ELSE standing[r]]
       ELSE UNCHANGED <<dirs, files, pdf, intact, clean, standing>>
    /\ UNCHANGED <<dpc, req, comic, pos, manifest, task, finished, permits, images, chapters, resp,
                   fetches, prior, envfail, now, offered, calls, made, sched>>

\* the latest time at which the clock still runs with no removal asleep
MaxClock == 2

\* a scheduled removal is still in its sleep
Sleeping == \E d \in AllDirs : \E j \in DOMAIN timers[d] : ~Awake(timers[d][j])

\* a second passes
tick ==
    /\ now < MaxClock \/ Sleeping
    /\ now' = now + 1
    /\ UNCHANGED <<dpc, req, comic, pos, manifest, task, finished, permits, images, chapters, resp,
                   dirs, files, timers, fetches, clean, standing, prior, intact, envfail,
                   pdf, offered, calls, made, sched>>

(***************************************************************************)
(* Specifications                                                          *)
(***************************************************************************)
downloadVars == <<dpc, req, comic, pos, manifest, task, finished, permits, images, chapters, resp,
                  dirs, files, timers, fetches, clean, standing, prior, intact, envfail,
                  pdf, now, offered, calls, made, sched>>

\* no request has arrived and the download directory is empty
Start(inputs) ==
    /\ offered = inputs
    /\ dpc = [r \in Requests |-> "idle"]
    /\ req = [r \in Requests |-> NoInput]
    /\ comic = [r \in Requests |-> NoComic]
    /\ pos = [r \in Requests |-> 0]
    /\ manifest = [r \in Requests |-> <<>>]
    /\ task = [r \in Requests |-> <<>>]
    /\ finished = [r \in Requests |-> <<>>]
    /\ permits = [r \in Requests |-> ImgConcurrency]
    /\ images = [r \in Requests |-> <<>>]
    /\ chapters = [r \in Requests |-> <<>>]
    /\ resp = [r \in Requests |-> NoResult]
    /\ dirs = {}
    /\ files = {}
    /\ timers = [d \in AllDirs |-> <<>>]
    /\ fetches = [r \in Requests |-> 0]
    /\ clean = [r \in Requests |-> TRUE]
    /\ standing = [r \in Requests |-> "first"]
    /\ prior = [input \in inputs |-> <<>>]
    /\ intact = {}
    /\ envfail = [r \in Requests |-> FALSE]
    /\ pdf = [d \in AllDirs |-> NoPdf]
    /\ now = 0
    /\ calls = [r \in Requests |-> {}]
    /\ made = [r \in Requests |-> {}]
    /\ sched = [r \in Requests |-> <<>>]
DownloadStart == Start(DownloadInputs)

sessionVars == <<session_valid, flagWriter, clientReaders, pc, stage, op, arg, ret, hist,
                 epoch, nstarted>>

\* GlobalJmClient::new: the client has logged in and the flag is true
SessionStart ==
    /\ session_valid = TRUE
    /\ flagWriter = NoCaller
    /\ clientReaders = {}
    /\ pc = [c \in Callers |-> "idle"]
    /\ stage = [c \in Callers |-> "first"]
    /\ op = [c \in Callers |-> "get_comic"]
    /\ arg = [c \in Callers |-> 7]
    /\ ret = [c \in Callers |-> NoResult]
    /\ hist = [c \in Callers |-> NoHist]
    /\ epoch = 0
    /\ nstarted = 0

pureVars == <<fnArgs, fnResult, run>>

\* no function runs in steps
NoRun == [pc |-> "none", retries |-> 0, backoff |-> 0, slept |-> <<>>, reads |-> 0,
          n_past_retries |-> 0, sends |-> 0, last |-> [kind |-> "none", status |-> 0]]

\* no function is under study
NotApplied == fnArgs = [fn |-> "none"] /\ fnResult = <<>> /\ run = NoRun

vars == <<sessionVars, downloadVars, pureVars>>

\* the session manager under concurrent callers
SessionInit == SessionStart /\ DownloadStart /\ NotApplied

SessionNext ==
    \E c \in Callers :
        \/ Call(c) /\ UNCHANGED <<downloadVars, pureVars>>
        \/ ensure_session_valid(c) /\ UNCHANGED <<downloadVars, pureVars>>
        \/ relogin(c) /\ UNCHANGED <<downloadVars, pureVars>>
        \/ login_returns(c) /\ UNCHANGED <<downloadVars, pureVars>>
        \/ call_returns(c) /\ UNCHANGED <<downloadVars, pureVars>>
        \/ mark_session_invalid(c) /\ UNCHANGED <<downloadVars, pureVars>>
        \/ Return(c) /\ UNCHANGED <<downloadVars, pureVars>>

SpecSession == SessionInit /\ [][SessionNext]_vars

\* the download handlers under concurrent requests and expiry timers
DownloadInit == SessionStart /\ DownloadStart /\ NotApplied

DownloadNext ==
    \/ \E r \in Requests :
          \/ download_chapter(r) /\ UNCHANGED <<sessionVars, pureVars>>
          \/ download_comic(r) /\ UNCHANGED <<sessionVars, pureVars>>
          \/ get_comic_returns(r) /\ UNCHANGED <<sessionVars, pureVars>>
          \/ get_chapter_returns(r) /\ UNCHANGED <<sessionVars, pureVars>>
          \/ get_scramble_id_returns(r) /\ UNCHANGED <<sessionVars, pureVars>>
          \/ join_next_err(r) /\ UNCHANGED <<sessionVars, pureVars>>
          \/ join_next_none(r) /\ UNCHANGED <<sessionVars, pureVars>>
          \/ \E i \in DOMAIN task[r] : acquire(r, i) /\ UNCHANGED <<sessionVars, pureVars>>
          \/ \E i \in DOMAIN task[r] : metadata_returns(r, i) /\ UNCHANGED <<sessionVars, pureVars>>
          \/ \E i \in DOMAIN task[r] : download_image_returns(r, i) /\ UNCHANGED <<sessionVars, pureVars>>
          \/ \E i \in DOMAIN task[r] : save_returns(r, i) /\ UNCHANGED <<sessionVars, pureVars>>
    \/ \E d \in AllDirs : expire(d) /\ UNCHANGED <<sessionVars, pureVars>>

SpecDownload == DownloadInit /\ [][DownloadNext]_vars

\* downloadComic bodies for one single-volume comic
ComicInputs ==
    { ComicRequest(9, FALSE, << <<"p", "w">> >>, -1),
      ComicRequest(9, TRUE, <<>>, 0),
      ComicRequest(9, TRUE, << <<" ">> >>, -1),
      ComicRequest(9, TRUE, << <<"p", "w">> >>, -1),
      ComicRequest(9, TRUE, << <<" ", "k">> >>, 0) }

ComicNext ==
    \/ \E r \in Requests :
          \/ download_comic(r) /\ UNCHANGED <<sessionVars, pureVars>>
          \/ get_comic_returns(r) /\ UNCHANGED <<sessionVars, pureVars>>
          \/ get_chapter_returns(r) /\ UNCHANGED <<sessionVars, pureVars>>
          \/ get_scramble_id_returns(r) /\ UNCHANGED <<sessionVars, pureVars>>
          \/ pdf_check_returns(r) /\ UNCHANGED <<sessionVars, pureVars>>
          \/ join_next_err(r) /\ UNCHANGED <<sessionVars, pureVars>>
          \/ join_next_none(r) /\ UNCHANGED <<sessionVars, pureVars>>
          \/ merge_images_to_pdf_returns(r) /\ UNCHANGED <<sessionVars, pureVars>>
          \/ compress_pdf_with_gs_returns(r) /\ UNCHANGED <<sessionVars, pureVars>>
          \/ \E i \in DOMAIN task[r] : acquire(r, i) /\ UNCHANGED <<sessionVars, pureVars>>
          \/ \E i \in DOMAIN task[r] : metadata_returns(r, i) /\ UNCHANGED <<sessionVars, pureVars>>
          \/ \E i \in DOMAIN task[r] : download_image_returns(r, i) /\ UNCHANGED <<sessionVars, pureVars>>
          \/ \E i \in DOMAIN task[r] : save_returns(r, i) /\ UNCHANGED <<sessionVars, pureVars>>
    \/ \E d \in AllDirs : expire(d) /\ UNCHANGED <<sessionVars, pureVars>>

\* downloadComic with and without merge and encrypt, under concurrent
\* requests and expiry timers
ComicInit == SessionStart /\ Start(ComicInputs) /\ NotApplied
SpecComic == ComicInit /\ [][ComicNext]_vars

\* request bodies that the handlers reject
RejectedInputs ==
    { ChapterRequest(7, <<>>, 0),
      ChapterRequest(7, <<>>, -2),
      ChapterRequest(7, <<12>>, -2),
      ComicRequest(9, FALSE, <<>>, -2),
      ComicRequest(7, FALSE, <<>>, 0),
      ChapterRequest(7, <<12, 13>>, 0),
      ChapterRequest(9, <<9, 5>>, 0) }

\* the download handlers on request bodies they reject
ValidateInit == SessionStart /\ Start(RejectedInputs) /\ NotApplied
SpecValidate == ValidateInit /\ [][DownloadNext]_vars

\* the request bodies of the timed specification
ExpiryInputs ==
    { ChapterRequest(7, <<12>>, 2),
      ChapterRequest(7, <<12>>, 0),
      ChapterRequest(7, <<12>>, -1),
      ComicRequest(9, FALSE, <<>>, 1) }

ExpiryNext ==
    \/ DownloadNext
    \/ tick /\ UNCHANGED <<sessionVars, pureVars>>

ExpiryInit == SessionStart /\ Start(ExpiryInputs) /\ NotApplied

\* the download handlers with a clock.  The runtime runs every spawned
\* removal whose sleep is over, and time passes.
SpecExpiry ==
    /\ ExpiryInit
    /\ [][ExpiryNext]_vars
    /\ WF_vars(tick /\ UNCHANGED <<sessionVars, pureVars>>)
    /\ \A d \in AllDirs : WF_vars(expire(d) /\ UNCHANGED <<sessionVars, pureVars>>)

(***************************************************************************)
(* Claims about the session manager (checked under SpecSession)            *)
(***************************************************************************)
AuthFailure(r) == ~r.ok /\ is_auth_error(r)

\* C1: a session-manager call invokes the protocol client at most twice; a
\* second invocation only follows a first one that returned an
\* authentication-class error and a re-login that returned Ok; the second
\* result is what the caller gets, whatever it is.
C1_AtMostOneRetry ==
    \A c \in Callers :
        /\ Len(hist[c].res) <= 2
        /\ Len(hist[c].res) = 2 =>
              /\ AuthFailure(hist[c].res[1])
              /\ hist[c].repair \in {"skipped", "login_ok"}
              /\ pc[c] = "done" /\ ret[c] = hist[c].res[2]

\* a retry that failed with an authentication-class error again, and returned it
C1_Witness ==
    \E c \in Callers :
        /\ pc[c] = "done"
        /\ Len(hist[c].res) = 2
        /\ AuthFailure(hist[c].res[2])
        /\ ret[c] = hist[c].res[2]

\* C2 (as claimed): two concurrent calls whose first attempts were issued
\* under the same session and both failed with an authentication-class
\* error share one login: once one of them logged in successfully, the
\* other does not invoke login.
C2_OneLoginPerBurst ==
    \A a, b \in Callers :
        ( /\ a # b
          /\ hist[a].res # <<>> /\ AuthFailure(hist[a].res[1])
          /\ hist[b].res # <<>> /\ AuthFailure(hist[b].res[1])
          /\ hist[a].sent = hist[b].sent
          /\ hist[a].repair = "login_ok" )
        => ~(stage[b] = "repair" /\ pc[b] = "login")

\* C3: at most one login issued by relogin is in flight; it runs under the
\* write guard of the flag, and only when the flag was found false.
C3_OneLoginInFlight ==
    /\ Cardinality({c \in Callers : pc[c] = "login"}) <= 1
    /\ \A c \in Callers : pc[c] = "login" => flagWriter = c /\ ~session_valid

\* a login in flight while another caller waits in relogin for the guard
C3_Witness ==
    \E c, d \in Callers : c # d /\ pc[c] = "login" /\ pc[d] = "relogin"

\* C4 (as claimed): every authentication-class failure of a protocol-client
\* invocation, the retry's included, is followed by mark_session_invalid
\* before the call returns.
C4_EveryAuthFailureMarksInvalid ==
    \A c \in Callers :
        pc[c] = "done" /\ hist[c].repair # "login_err" =>
            hist[c].marks =
                Cardinality({i \in 1..Len(hist[c].res) : AuthFailure(hist[c].res[i])})

LoginErrors == {r \in {JmClient_login(up) : up \in LoginUpstream} : ~r.ok}

\* C5: the flag turns true only in the step in which a login returns Ok;
\* when a login fails the flag stays false, the caller gets the login error
\* and the protocol-client operation is not invoked.
C5_OnlyLoginValidates ==
    [][ /\ (~session_valid /\ session_valid') =>
              \E c \in Callers : pc[c] = "login" /\ pc'[c] \in {"call", "ensure"}
        /\ \A c \in Callers :
              (pc[c] = "login" /\ pc'[c] = "done") =>
                  /\ ~session_valid'
                  /\ ret'[c] \in LoginErrors
                  /\ hist'[c].res = hist[c].res
        /\ \A c \in Callers :
              (pc[c] = "done" /\ ret[c] \in LoginErrors) => hist'[c].res \in {hist[c].res, <<>>}
      ]_vars

\* a failed re-login after an authentication error: flag false, error returned
C5_Witness ==
    \E c \in Callers :
        /\ pc[c] = "done"
        /\ hist[c].repair = "login_err"
        /\ ret[c] \in LoginErrors
        /\ Len(hist[c].res) = 1
        /\ ~session_valid

\* C6: a protocol call that fails with an error that is not
\* authentication-class ends the session-manager call in that step: the same
\* error is returned, the flag and its lock are untouched, neither login
\* nor a retry follows.
C6_OtherErrorsPropagate ==
    [][ \A c \in Callers :
            ( /\ pc[c] = "call"
              /\ pc'[c] # "call"
              /\ ~hist'[c].res[Len(hist'[c].res)].ok
              /\ ~is_auth_error(hist'[c].res[Len(hist'[c].res)]) )
            => /\ pc'[c] = "done"
               /\ ret'[c] = hist'[c].res[Len(hist'[c].res)]
               /\ session_valid' = session_valid
               /\ flagWriter' = flagWriter
               /\ epoch' = epoch
      ]_vars

\* a first attempt that failed with a non-authentication error and returned it
C6_Witness ==
    \E c \in Callers :
        /\ pc[c] = "done"
        /\ Len(hist[c].res) = 1
        /\ ~ret[c].ok /\ ~is_auth_error(ret[c])
        /\ ret[c] = hist[c].res[1]
        /\ hist[c].marks = 0

(***************************************************************************)
(* Claims about the download orchestrator                                  *)
(***************************************************************************)
\* C7: within one request the page tasks holding a permit never exceed
\* img_concurrency, and permits held plus permits available is always
\* img_concurrency; the semaphore is per request.
C7_PermitsPerRequest ==
    \A r \in Requests :
        /\ held(r) <= ImgConcurrency
        /\ permits[r] >= 0
        /\ held(r) + permits[r] = ImgConcurrency

\* a downloadChapter and a downloadComic request each hold all their permits
\* at once, each with a page task waiting: 2 x img_concurrency in flight
C7_Witness ==
    /\ req[1].kind = "chapter" /\ req[2].kind = "comic"
    /\ \A r \in Requests :
          /\ held(r) = ImgConcurrency
          /\ \E i \in DOMAIN task[r] : task[r][i] = "queued"

\* download/{comic_id}/{chapter_id}/{k:04}.png for the k-th page, k from 1
C8_Path(comic_id, chapter_id, k) ==
    <<"d", "o", "w", "n", "l", "o", "a", "d", "/">> \o Dec(comic_id) \o <<"/">>
        \o Dec(chapter_id) \o <<"/">> \o Pad4(k) \o <<".", "p", "n", "g">>

\* C8: in every successful downloadChapter response every chapter lists as
\* many images as the upstream manifest, the k-th being
\* download/{comic_id}/{chapter_id}/{k:04}.png, whatever order the page
\* tasks completed in.
C8_ImagesInPageOrder ==
    \A r \in Requests :
        dpc[r] = "done" /\ resp[r].ok /\ req[r].kind = "chapter" =>
            \A j \in 1..Len(resp[r].val[1].chapters) :
                LET c == resp[r].val[1].chapters[j]
                IN  /\ Len(c.images) = Len(Manifest(c.chapter_id).images)
                    /\ \A k \in 1..Len(c.images) :
                          c.images[k] = C8_Path(req[r].comic_id, c.chapter_id, k)

\* a successful response whose last chapter had its second page complete
\* before its first
C8_Witness ==
    \E r \in Requests :
        /\ dpc[r] = "done" /\ resp[r].ok /\ req[r].kind = "chapter"
        /\ Len(images[r]) = 2
        /\ images[r][1][1] > images[r][2][1]

\* C9 as stated: a downloadChapter request that repeats a successful one
\* sends no image request and returns the same data.
C9_RepeatFetchesNothing ==
    \A r \in Requests :
        req[r].kind = "chapter" /\ standing[r] \in {"repeat", "intact"} =>
            /\ fetches[r] = 0
            /\ dpc[r] = "done" /\ resp[r].ok => resp[r].val = prior[req[r]]

\* C9 amended: a downloadChapter request that repeats a successful one, with
\* no expiry removal in its chapter directories from the arrival of that
\* request on, sends no image request, and returns the same data when its
\* metadata calls succeed.
C9_IntactRepeatFetchesNothing ==
    \A r \in Requests :
        req[r].kind = "chapter" /\ standing[r] = "intact" =>
            /\ fetches[r] = 0
            /\ dpc[r] = "done" /\ ~envfail[r] => resp[r].ok /\ resp[r].val = prior[req[r]]

\* a repeat with expiry pending has returned, all its pages cache hits
C9_Witness ==
    \E r \in Requests :
        /\ req[r].kind = "chapter" /\ standing[r] = "intact"
        /\ req[r].expire_seconds = 0
        /\ dpc[r] = "done" /\ resp[r].ok

\* C10: a successful downloadChapter response has one chapter per requested
\* id, in the order supplied, duplicates included; and while the handler is
\* in the upstream calls of a chapter, every page task of the chapter before
\* has finished and been joined.
C10_ChaptersInOrder ==
    \A r \in Requests :
        /\ dpc[r] = "done" /\ resp[r].ok /\ req[r].kind = "chapter" =>
              /\ Len(resp[r].val[1].chapters) = Len(req[r].chapter_ids)
              /\ \A k \in 1..Len(req[r].chapter_ids) :
                    resp[r].val[1].chapters[k].chapter_id = req[r].chapter_ids[k]
        /\ dpc[r] \in {"get_chapter", "get_scramble_id"} =>
              \A i \in DOMAIN task[r] : task[r][i] = "joined"

\* one response for <<12, 11>> and one for <<12, 12>>
C10_Witness ==
    /\ \A r \in Requests : dpc[r] = "done" /\ resp[r].ok
    /\ req[1].chapter_ids = <<12, 11>>
    /\ req[2].chapter_ids = <<12, 12>>


\* C11: once a page task of a chapter has failed, the request neither
\* enters a later chapter nor adds a chapter to its data; it stays at the
\* join until it returns, and what it returns is the error of a failed page
\* task, without data, in a step that leaves the files and directories on
\* disk as they are.
C11_PageFailureFailsRequest ==
    [][\A r \in Requests :
          finished[r] # <<>> =>
              /\ dpc'[r] \in {"join", "done"}
              /\ pos'[r] = pos[r]
              /\ chapters'[r] = chapters[r]
              /\ dpc'[r] = "done" =>
                     /\ \E j \in DOMAIN finished[r] : resp'[r] = finished[r][j]
                     /\ ~resp'[r].ok
                     /\ resp'[r].val = <<>>
                     /\ files' = files
                     /\ dirs' = dirs]_vars
\* a request has failed on a page of a chapter that is not its last, and
\* files of that chapter are on disk
C11_Witness ==
    \E r \in Requests :
        /\ dpc[r] = "done"
        /\ ~resp[r].ok
        /\ Take(resp[r].msg, 4) = <<"U+4E0B", "U+8F7D", "U+56FE", "U+7247">>
        /\ req[r].kind = "chapter"
        /\ pos[r] < Len(req[r].chapter_ids)
        /\ \E p \in files : InDir(p, chapter_dir(req[r].comic_id, req[r].chapter_ids[pos[r]]))


\* the directory of the chapter a request is, or was last, working on
WorkDir(r) ==
    IF req[r].kind = "comic" THEN chapter_dir(req[r].comic_id, req[r].comic_id)
    ELSE IF pos[r] \in DOMAIN req[r].chapter_ids
         THEN chapter_dir(req[r].comic_id, req[r].chapter_ids[pos[r]])
         ELSE <<>>

\* the request has returned the error of a page task
FailedOnPage(r) ==
    /\ dpc[r] = "done"
    /\ ~resp[r].ok
    /\ \/ Take(resp[r].msg, 6) = <<"U+4E0B", "U+8F7D", "U+56FE", "U+7247", "U+5931", "U+8D25">>
       \/ Take(resp[r].msg, 5) = <<"U+4FDD", "U+5B58", "U+56FE", "U+7247", "U+5230">>

\* C12: after a request with expire_seconds >= 0 has failed on a page task,
\* the directory of the chapter it was downloading is eventually removed
\* (a removal of it is attempted while it exists).
C12_FailedChapterIsCleaned ==
    \A r \in Requests :
        (FailedOnPage(r) /\ req[r].expire_seconds >= 0) ~> (WorkDir(r) \notin dirs)


\* the step in which request r passes its schedule_delete_dir call
Schedules(r) ==
    /\ dpc[r] = "join"
    /\ \/ chapters'[r] # chapters[r]
       \/ req[r].kind = "comic" /\ dpc'[r] = "done" /\ resp'[r].ok

\* the step in which a removal scheduled for d runs
Removes(d) == Len(timers'[d]) < Len(timers[d])

\* C13: a request with expire_seconds = -1 schedules nothing; with
\* expire_seconds = n >= 0 its scheduling step adds one removal of the
\* chapter directory that wakes n seconds later (at once for 0), and in that
\* step the handler goes on while nothing is removed yet; a removal runs only
\* when its wake-up time has come; a removal step, also one that finds no
\* directory, leaves every request's position and response alone; and every
\* scheduled removal is eventually run.
C13_ExpiryScheduling ==
    /\ [][\A r \in Requests :
             Schedules(r) =>
                 /\ dirs' = dirs /\ files' = files
                 /\ dpc'[r] \in {"done", "get_chapter"}
                 /\ IF req[r].expire_seconds < 0
                    THEN timers' = timers /\ sched'[r] = <<>>
                    ELSE /\ sched'[r] = Append(sched[r], WorkDir(r))
                         /\ \E j \in DOMAIN timers'[WorkDir(r)] :
                               /\ timers'[WorkDir(r)][j] = now + req[r].expire_seconds
                               /\ timers[WorkDir(r)] = Without(timers'[WorkDir(r)], j)
                         /\ \A d \in AllDirs \ {WorkDir(r)} : timers'[d] = timers[d]]_vars
    /\ [][\A d \in AllDirs :
             Removes(d) =>
                 /\ \E j \in DOMAIN timers[d] :
                       timers[d][j] <= now /\ timers'[d] = Without(timers[d], j)
                 /\ d \notin dirs'
                 /\ dpc' = dpc /\ resp' = resp]_vars
    /\ [](\A r \in Requests : req[r].expire_seconds < 0 => sched[r] = <<>>)
    /\ \A d \in AllDirs : (timers[d] # <<>>) ~> (timers[d] = <<>>)
\* two requests for one chapter have succeeded, one with expire_seconds = 2
\* and one, served from the other's file, with 0; both removals have run,
\* the later of them on a directory that was no longer there
C13_Witness ==
    \E r1, r2 \in Requests :
        /\ dpc[r1] = "done" /\ resp[r1].ok /\ req[r1].expire_seconds = 2
        /\ dpc[r2] = "done" /\ resp[r2].ok /\ req[r2].expire_seconds = 0
        /\ WorkDir(r1) = WorkDir(r2)
        /\ fetches[r1] = 1 /\ fetches[r2] = 0
        /\ timers[WorkDir(r1)] = <<>>
        /\ WorkDir(r1) \notin dirs


\* C14: in every step the removals pending for a directory stay as they
\* are, or gain one, or lose one whose wake-up time has come, and that one
\* by running: the directory is gone after the step, whoever is downloading
\* into it.  A request that completes a chapter with expire_seconds >= 0
\* adds one removal to those pending, whatever is pending already.  A
\* removal pending while a request is downloading into its directory is
\* eventually run.
C14_TimersAreIndependent ==
    /\ [][\A d \in AllDirs :
             \/ timers'[d] = timers[d]
             \/ \E j \in DOMAIN timers'[d] : Without(timers'[d], j) = timers[d]
             \/ /\ \E j \in DOMAIN timers[d] :
                      timers[d][j] <= now /\ timers'[d] = Without(timers[d], j)
                /\ d \notin dirs'
                /\ \A p \in files' : ~InDir(p, d)]_vars
    /\ [][\A r \in Requests :
             (Schedules(r) /\ req[r].expire_seconds >= 0) =>
                 Len(timers'[WorkDir(r)]) = Len(timers[WorkDir(r)]) + 1]_vars
    /\ \A d \in AllDirs :
          (timers[d] # <<>> /\ \E r \in Requests : dpc[r] = "join" /\ WorkDir(r) = d)
              ~> (timers[d] = <<>>)
\* the removal scheduled by a finished request has taken away the directory
\* that a later request, sent with expire_seconds = -1, had made and is
\* still downloading into
C14_Witness ==
    \E r1, r2 \in Requests :
        /\ r1 < r2
        /\ dpc[r1] = "done" /\ resp[r1].ok /\ req[r1].expire_seconds > 0
        /\ sched[r1] = <<WorkDir(r1)>>
        /\ timers[WorkDir(r1)] = <<>>
        /\ dpc[r2] = "join" /\ req[r2].expire_seconds = -1
        /\ WorkDir(r2) = WorkDir(r1)
        /\ WorkDir(r2) \in made[r2]
        /\ WorkDir(r2) \notin dirs
        /\ \E i \in DOMAIN task[r2] : task[r2][i] = "fetch"


\* C15: a downloadChapter request with an empty chapter_ids or with
\* expire_seconds < -1, and a downloadComic request with expire_seconds < -1,
\* has, from its arrival on, returned BadRequest, and has made no upstream
\* call, no image request, no directory and no expiry.
C15_RejectedBeforeAnyEffect ==
    \A r \in Requests :
        (/\ dpc[r] # "idle"
         /\ \/ req[r].kind = "chapter" /\ req[r].chapter_ids = <<>>
            \/ req[r].expire_seconds < -1) =>
            /\ dpc[r] = "done"
            /\ ~resp[r].ok
            /\ resp[r].kind = "BadRequest"
            /\ calls[r] = {}
            /\ fetches[r] = 0
            /\ made[r] = {}
            /\ sched[r] = <<>>
\* one request was rejected for its empty list and one downloadComic
\* request for its expire_seconds
C15_Witness ==
    \E r1, r2 \in Requests :
        /\ dpc[r1] = "done" /\ req[r1].kind = "chapter" /\ req[r1].chapter_ids = <<>>
        /\ req[r1].expire_seconds >= -1
        /\ dpc[r2] = "done" /\ req[r2].kind = "comic" /\ req[r2].expire_seconds < -1
        /\ resp[r1].kind = "BadRequest" /\ resp[r2].kind = "BadRequest"


\* C16: a downloadComic request for a comic that has a chapter list waits
\* for get_comic or has returned; it has made no get_chapter or
\* get_scramble_id call, no image request, no directory and no expiry; and
\* once get_comic has given it the comic it has returned BadRequest.
C16_ChapterComicRejected ==
    \A r \in Requests :
        (/\ req[r].kind = "comic"
         /\ ValidExpire(req[r].expire_seconds)
         /\ Catalogue(req[r].comic_id).series # <<>>) =>
            /\ dpc[r] \in {"get_comic", "done"}
            /\ calls[r] \subseteq {<<"get_comic", req[r].comic_id>>}
            /\ fetches[r] = 0
            /\ made[r] = {}
            /\ sched[r] = <<>>
            /\ comic[r] # NoComic =>
                   /\ dpc[r] = "done"
                   /\ ~resp[r].ok
                   /\ resp[r].kind = "BadRequest"
                   /\ calls[r] = {<<"get_comic", req[r].comic_id>>}
\* downloadComic was called for the comic with chapters 11 and 12, and
\* get_comic returned it
C16_Witness ==
    \E r \in Requests :
        /\ req[r].kind = "comic"
        /\ dpc[r] = "done"
        /\ Len(comic[r].series) = 2
        /\ resp[r].kind = "BadRequest"


\* the chapter lookup of downloadChapter accepts the id
Admissible(c, comic_id, chapter_id) ==
    IF c.series = <<>> THEN chapter_id = comic_id
    ELSE \E j \in DOMAIN c.series : c.series[j].id = Dec(chapter_id)
\* the positions of chapter_ids whose id the lookup does not accept
Inadmissible(r) ==
    {k \in DOMAIN req[r].chapter_ids :
        ~Admissible(comic[r], req[r].comic_id, req[r].chapter_ids[k])}

\* C17: once a downloadChapter request has the comic, it never works on a
\* chapter id that is not the comic id (single-volume comic) or not in the
\* series (chapter-based comic): no get_chapter or get_scramble_id call is
\* made and no directory is created for that id.  A request returns
\* NotFound only for the first such id of its list, and by then every
\* chapter before it is in the request's data, in order, with its removal
\* scheduled when expire_seconds >= 0; a request that has completed the
\* chapters before such an id and returned has returned NotFound, and a
\* request with such an id never succeeds.
C17_UnknownChapterRejected ==
    \A r \in Requests :
        (req[r].kind = "chapter" /\ comic[r] # NoComic) =>
            /\ \A k \in Inadmissible(r) :
                  /\ pos[r] < k
                  /\ <<"get_chapter", req[r].chapter_ids[k]>> \notin calls[r]
                  /\ <<"get_scramble_id", req[r].chapter_ids[k]>> \notin calls[r]
                  /\ chapter_dir(req[r].comic_id, req[r].chapter_ids[k]) \notin made[r]
            /\ (dpc[r] = "done" /\ resp[r].kind = "NotFound") =>
                  /\ pos[r] + 1 \in Inadmissible(r)
                  /\ Len(chapters[r]) = pos[r]
                  /\ \A j \in 1..pos[r] :
                        /\ chapters[r][j].chapter_id = req[r].chapter_ids[j]
                        /\ chapters[r][j].images # <<>>
                        /\ <<"get_chapter", req[r].chapter_ids[j]>> \in calls[r]
                  /\ req[r].expire_seconds >= 0 =>
                        sched[r] = [j \in 1..pos[r] |->
                                       chapter_dir(req[r].comic_id, req[r].chapter_ids[j])]
            /\ (dpc[r] = "done" /\ pos[r] + 1 \in Inadmissible(r) /\ Len(chapters[r]) = pos[r]) =>
                  resp[r].kind = "NotFound"
            /\ (dpc[r] = "done" /\ Inadmissible(r) # {}) => ~resp[r].ok
\* one request for a chapter-based comic and one for a single-volume comic
\* were rejected at their second chapter id, after the first was downloaded
C17_Witness ==
    \E r1, r2 \in Requests :
        /\ dpc[r1] = "done" /\ resp[r1].kind = "NotFound" /\ comic[r1].series # <<>>
        /\ dpc[r2] = "done" /\ resp[r2].kind = "NotFound" /\ comic[r2].series = <<>>
        /\ pos[r1] = 1 /\ pos[r2] = 1
        /\ Len(sched[r1]) = 1 /\ Len(sched[r2]) = 1


\* C18: the step in which a downloadComic request with merge finds
\* merged.pdf in the chapter directory returns success with the path of that
\* file and no image list, sends no image request, runs neither the merge
\* nor the compressor, leaves the disk as it is, and schedules the removal
\* of the directory as expire_seconds says; a request that has succeeded
\* without running the merge has sent no image request and not run the
\* compressor.
C18_CachedPdfReturned ==
    /\ [][\A r \in Requests :
             (/\ dpc[r] = "pdf_check"
              /\ dpc'[r] # "pdf_check"
              /\ pdf[WorkDir(r)].stage # "none") =>
                 /\ dpc'[r] = "done"
                 /\ resp'[r].ok
                 /\ resp'[r].val[1].pdf_path
                        = <<pdf_relative_path(req[r].comic_id, req[r].comic_id)>>
                 /\ fetches' = fetches
                 /\ calls' = calls
                 /\ pdf' = pdf /\ files' = files /\ dirs' = dirs
                 /\ IF req[r].expire_seconds < 0
                    THEN timers' = timers /\ sched'[r] = <<>>
                    ELSE /\ sched'[r] = <<WorkDir(r)>>
                         /\ timers' = [timers EXCEPT ![WorkDir(r)] =
                                          Insert(@, now + req[r].expire_seconds)]]_vars
    /\ [](\A r \in Requests :
             (/\ dpc[r] = "done" /\ resp[r].ok /\ req[r].merge
              /\ <<"merge", req[r].comic_id>> \notin calls[r]) =>
                 /\ fetches[r] = 0
                 /\ <<"gs", req[r].comic_id>> \notin calls[r])
\* a request with merge and expire_seconds = 0 was served the merged.pdf
\* that another request had produced, and has scheduled the removal
C18_Witness ==
    \E r, q \in Requests :
        /\ dpc[r] = "done" /\ resp[r].ok /\ req[r].merge
        /\ req[r].expire_seconds = 0
        /\ calls[r] = {<<"get_comic", 9>>, <<"get_chapter", 9>>, <<"get_scramble_id", 9>>}
        /\ fetches[r] = 0
        /\ sched[r] = <<WorkDir(r)>>
        /\ <<"gs", 9>> \in calls[q]


\* C19: in the step in which a downloadComic request with merge and a
\* non-blank encrypt value returns success, the merged.pdf of its pdf_path
\* is the output of a compressor run that was given -sUserPassword and
\* -sOwnerPassword with that (trimmed) value.
C19_PdfCarriesThePassword ==
    [][\A r \in Requests :
          (/\ dpc[r] # "done" /\ dpc'[r] = "done" /\ resp'[r].ok
           /\ req[r].merge
           /\ req[r].encrypt # <<>>
           /\ Trim(req[r].encrypt[1]) # <<>>) =>
              /\ resp'[r].val[1].pdf_path
                     = <<pdf_relative_path(req[r].comic_id, req[r].comic_id)>>
              /\ pdf'[WorkDir(r)].stage = "compressed"
              /\ pdf'[WorkDir(r)].pw =
                     << <<"-", "s", "U", "s", "e", "r", "P", "a", "s", "s", "w", "o", "r", "d", "=">>
                            \o Trim(req[r].encrypt[1]),
                        <<"-", "s", "O", "w", "n", "e", "r", "P", "a", "s", "s", "w", "o", "r", "d", "=">>
                            \o Trim(req[r].encrypt[1]) >>]_vars


\* C20: the data of a successful downloadComic response has the path of
\* merged.pdf and no image list when merge is true, and an image list and no
\* path when merge is false.
C20_ImagesOrPdfPath ==
    \A r \in Requests :
        (dpc[r] = "done" /\ resp[r].ok /\ req[r].kind = "comic") =>
            IF req[r].merge
            THEN /\ resp[r].val[1].images = <<>>
                 /\ resp[r].val[1].pdf_path
                        = <<pdf_relative_path(req[r].comic_id, req[r].comic_id)>>
            ELSE /\ Len(resp[r].val[1].images) = 1
                 /\ resp[r].val[1].pdf_path = <<>>
\* one request without merge and one with merge, which ran the compressor,
\* have succeeded
C20_Witness ==
    \E r1, r2 \in Requests :
        /\ dpc[r1] = "done" /\ resp[r1].ok /\ ~req[r1].merge
        /\ Len(resp[r1].val[1].images[1]) = 2
        /\ dpc[r2] = "done" /\ resp[r2].ok /\ req[r2].merge
        /\ <<"gs", 9>> \in calls[r2]



(***************************************************************************)
(* handlers.rs, get_comic_info                                             *)
(***************************************************************************)
InfoRequest(id) ==
    [kind |-> "info", comic_id |-> id, chapter_ids |-> <<>>, expire_seconds |-> -1,
     merge |-> FALSE, encrypt |-> <<>>]

PlainComic == <<"U+666E", "U+901A", "U+6F2B", "U+753B">>
SerialComic == <<"U+7AE0", "U+8282", "U+6F2B", "U+753B">>

AlwaysPlain(c) == PlainComic
\* if comic.series.is_empty() { "普通漫画" } else { "章节漫画" }
comic_type(c) == IF c.series = <<>> THEN PlainComic ELSE SerialComic

\* the ComicInfo of the response; total_pages is an Option
ComicInfo(id, c, total_pages) ==
    [comic_id |-> id, title |-> c.name, comic_type |-> comic_type(c),
     total_pages |-> total_pages]

\* a getInfo request arrives and the handler awaits global_client.get_comic
get_comic_info(r) ==
    \E input \in {i \in offered : i.kind = "info"} :
        /\ Arrive(r, input)
        /\ Continue(r, "info_comic")

\* get_comic returns to get_comic_info: an error ends the request, a
\* chapter-based comic is answered at once, a single volume needs its pages
info_get_comic_returns(r) ==
    /\ dpc[r] = "info_comic"
    /\ \E res \in GlobalResults("get_comic", req[r].comic_id) :
          IF ~res.ok THEN
              /\ Returns(r, res)
              /\ envfail' = [envfail EXCEPT ![r] = TRUE]
              /\ UNCHANGED comic
          ELSE
              /\ comic' = [comic EXCEPT ![r] = res.val[1]]
              /\ UNCHANGED envfail
              /\ IF res.val[1].series = <<>> THEN Continue(r, "info_chapter")
                 ELSE Returns(r, Ok(ComicInfo(req[r].comic_id, res.val[1], <<>>)))
    /\ calls' = [calls EXCEPT ![r] = @ \cup {<<"get_comic", req[r].comic_id>>}]
    /\ UNCHANGED <<req, pos, manifest, images, chapters, dirs, files, timers, fetches, clean,
                   standing, pdf, now, offered, made, sched>>

\* get_chapter(request.id) returns to get_comic_info
info_get_chapter_returns(r) ==
    /\ dpc[r] = "info_chapter"
    /\ \E res \in GlobalResults("get_chapter", req[r].comic_id) :
          IF ~res.ok THEN
              /\ Returns(r, res)
              /\ envfail' = [envfail EXCEPT ![r] = TRUE]
              /\ UNCHANGED manifest
          ELSE
              /\ manifest' = [manifest EXCEPT ![r] = res.val[1].images]
              /\ UNCHANGED envfail
              /\ Returns(r, Ok(ComicInfo(req[r].comic_id, comic[r],
                                         <<Len(res.val[1].images)>>)))
    /\ calls' = [calls EXCEPT ![r] = @ \cup {<<"get_chapter", req[r].comic_id>>}]
    /\ UNCHANGED <<req, comic, pos, images, chapters, dirs, files, timers, fetches, clean,
                   standing, pdf, now, offered, made, sched>>

\* getInfo for the chapter-based comic 7 and the single volumes 9 and 12
InfoInputs == {InfoRequest(7), InfoRequest(9), InfoRequest(12)}

InfoInit == SessionStart /\ Start(InfoInputs) /\ NotApplied

InfoNext ==
    \E r \in Requests :
        \/ get_comic_info(r) /\ UNCHANGED <<sessionVars, pureVars>>
        \/ info_get_comic_returns(r) /\ UNCHANGED <<sessionVars, pureVars>>
        \/ info_get_chapter_returns(r) /\ UNCHANGED <<sessionVars, pureVars>>

\* concurrent getInfo requests
SpecInfo == InfoInit /\ [][InfoNext]_vars

(***************************************************************************)
(* Claims about getInfo (checked under SpecInfo)                           *)
(***************************************************************************)
InfoDone(r) == dpc[r] = "done" /\ req[r].kind = "info"
ChapterCalls(r) == {c \in calls[r] : c[1] = "get_chapter"}

\* C21: a successful getInfo answers "普通漫画" exactly when the comic has no
\* chapters; for a chapter-based comic it has fetched no chapter and
\* total_pages is omitted; for a single volume it has fetched the chapter of
\* the comic id, once, and total_pages is the length of its manifest; when
\* that fetch fails the request fails with the error of the fetch.
C21_InfoPagesOnlyForSingleVolume ==
    /\ [](\A r \in Requests : (InfoDone(r) /\ resp[r].ok) =>
            LET info == resp[r].val[1]
                c == Catalogue(req[r].comic_id)
            IN  /\ (info.comic_type = PlainComic) <=> (c.series = <<>>)
                /\ info.comic_type \in {PlainComic, SerialComic}
                /\ c.series # <<>> => ChapterCalls(r) = {} /\ info.total_pages = <<>>
                /\ c.series = <<>> =>
                      /\ ChapterCalls(r) = {<<"get_chapter", req[r].comic_id>>}
                      /\ info.total_pages = <<Len(Manifest(req[r].comic_id).images)>>)
    /\ [][\A r \in Requests :
            /\ dpc'[r] = "info_chapter" => dpc[r] \in {"info_comic", "info_chapter"}
            /\ (dpc[r] = "info_chapter" /\ dpc'[r] # dpc[r]) =>
                  /\ dpc'[r] = "done"
                  /\ envfail'[r] => ~resp'[r].ok /\ resp'[r].kind = "Internal"
                  /\ ~envfail'[r] => resp'[r].ok]_vars

C21_Witness ==
    /\ \E r \in Requests : InfoDone(r) /\ resp[r].ok /\ req[r].comic_id = 7
    /\ \E r \in Requests : InfoDone(r) /\ resp[r].ok /\ req[r].comic_id = 12
                           /\ resp[r].val[1].total_pages = <<1>>
C21_WitnessFailedFetch ==
    \E r \in Requests : InfoDone(r) /\ ~resp[r].ok /\ ChapterCalls(r) # {}



(***************************************************************************)
(* jm_client.rs, calculate_block_num; image_processor.rs, stitch_img       *)
(***************************************************************************)
HexChars == <<"0", "1", "2", "3", "4", "5", "6", "7", "8", "9", "a", "b", "c", "d", "e", "f">>

\* the value of a hexadecimal digit
hex_value(ch) == (CHOOSE k \in 1..16 : HexChars[k] = ch) - 1

\* `ch as u32` of a character of format!("{:x}", ..): '0' is 48, 'a' is 97
char_as_u32(ch) == IF hex_value(ch) < 10 THEN 48 + hex_value(ch) ELSE 97 + hex_value(ch) - 10

\* the hashed regimes: block_num %= x; block_num = block_num * 2 + 2
hashed_block_num(last, x) == (char_as_u32(last) % x) * 2 + 2

ThresholdFirst(scramble_id, chapter_id, last) ==
    IF chapter_id < 268850 THEN 10
    ELSE IF chapter_id < scramble_id THEN 0
    ELSE hashed_block_num(last, IF chapter_id < 421926 THEN 10 ELSE 8)

\* calculate_block_num.  The digest md5(chapter_id ++ file stem) is not
\* computed: its last character, the only part the function reads, stands
\* in for the file name and ranges over all sixteen hexadecimal digits.
calculate_block_num(scramble_id, chapter_id, last) ==
    IF chapter_id < scramble_id THEN 0
    ELSE IF chapter_id < 268850 THEN 10
    ELSE hashed_block_num(last, IF chapter_id < 421926 THEN 10 ELSE 8)

\* the scramble ids and chapter ids given to calculate_block_num: the
\* fallback 220980, and ids on both sides of each threshold
ScrambleIds == {-1, 0, 220980, 268850, 300000, 421926, 500000}
ChapterIds == {-2, 0, 220979, 220980, 268849, 268850, 300000, 421925, 421926, 500000, 600000}

BlockNumInputs ==
    { [fn |-> "calculate_block_num", scramble_id |-> s, chapter_id |-> c, last |-> HexChars[k]] :
        s \in ScrambleIds, c \in ChapterIds, k \in 1..16 }

\* calculate_block_num is called and returns
calculate_block_num_returns ==
    /\ fnArgs.fn = "calculate_block_num"
    /\ fnResult = <<>>
    /\ fnResult' = <<calculate_block_num(fnArgs.scramble_id, fnArgs.chapter_id, fnArgs.last)>>
    /\ UNCHANGED <<fnArgs, run>>

\* let mut dst_img_y_start = block_height * i, moved down by the remainder
\* for every block but the first
DstWithoutRemainder(height, block_num, i) == (height \div block_num) * i
dst_img_y_start(height, block_num, i) ==
    IF i = 0 THEN 0 ELSE (height \div block_num) * i + (height % block_num)

\* stitch_img on an image of width x height pixels.  The result tells
\* whether the call panicked (a remainder by zero, or a u32 subtraction
\* below zero) and else the size of the new image and the pixel copies made,
\* each from (x, src_y) to (x, dst_y), named by block i and row y of the block.
stitch_img(width, height, block_num) ==
    IF block_num = 0 THEN [panic |-> TRUE, width |-> 0, height |-> 0, writes |-> {}]
    ELSE
    LET remainder_height == height % block_num
        block_height == height \div block_num
        underflow == \E i \in 0..(block_num - 1) :
                        \/ height < block_height * (i + 1)
                        \/ height - block_height * (i + 1) < remainder_height
        src_img_y_start(i) == height - block_height * (i + 1) - remainder_height
        rows(i) == IF i = 0 THEN block_height + remainder_height ELSE block_height
    IN  IF underflow THEN [panic |-> TRUE, width |-> 0, height |-> 0, writes |-> {}]
        ELSE [panic |-> FALSE, width |-> width, height |-> height,
              writes |-> UNION { { [i |-> i, y |-> y, x |-> x,
                                    src_y |-> src_img_y_start(i) + y,
                                    dst_y |-> dst_img_y_start(height, block_num, i) + y] :
                                      y \in 0..(rows(i) - 1), x \in 0..(width - 1) } :
                                 i \in 0..(block_num - 1) }]

\* the images and block counts given to stitch_img
MaxWidth == 2
MaxHeight == 12
MaxBlockNum == 20
StitchInputs ==
    { [fn |-> "stitch_img", width |-> w, height |-> h, block_num |-> n] :
        w \in 1..MaxWidth, h \in 0..MaxHeight, n \in 1..MaxBlockNum }

\* stitch_img is called and returns
stitch_img_returns ==
    /\ fnArgs.fn = "stitch_img"
    /\ fnResult = <<>>
    /\ fnResult' = <<stitch_img(fnArgs.width, fnArgs.height, fnArgs.block_num)>>
    /\ UNCHANGED <<fnArgs, run>>

(***************************************************************************)
(* image_processor.rs, process_and_save_image                              *)
(***************************************************************************)
NeverSkips(block_num) == FALSE
\* if block_num == 0 { src_img } else { stitch_img(&mut src_img, block_num) }
skips_stitch(block_num) == block_num = 0

\* the rows of the image stitch_img returns, each named by the source row
\* copied into it (a row of a one-pixel-wide image)
stitched_rows(height, block_num) ==
    LET out == stitch_img(1, height, block_num)
    IN  [d \in 1..height |-> (CHOOSE w \in out.writes : w.dst_y = d - 1).src_y]

\* process_and_save_image on downloaded bytes: format is what guess_format
\* finds ("none": it fails), decodes whether load_from_memory succeeds, height
\* the height of the decoded image, writes whether the file can be written.
\* The result tells what the call returned, the block counts it called
\* stitch_img with, and the file it wrote: the bytes as they came ("raw") or
\* a PNG whose rows are named by the rows of the decoded image.
process_and_save_image(a) ==
    LET wrote(kind, rows) == [kind |-> kind, rows |-> rows]
        nothing == wrote("none", <<>>)
    IN  IF a.format = "none" THEN
            [res |-> Err("Internal", <<"U+68C0", "U+6D4B", "U+56FE", "U+7247", "U+683C", "U+5F0F", "U+5931", "U+8D25", ":", " ">>), stitched |-> {}, file |-> nothing]
        ELSE IF a.format = "gif" THEN
            IF a.writes THEN [res |-> Ok("unit"), stitched |-> {}, file |-> wrote("raw", <<>>)]
            ELSE [res |-> Err("Internal", <<"U+4FDD", "U+5B58", "G", "I", "F", "U+56FE", "U+7247", "U+5230", " ">>), stitched |-> {}, file |-> nothing]
        ELSE IF ~a.decodes THEN
            [res |-> Err("Internal", <<"U+89E3", "U+7801", "U+56FE", "U+7247", "U+5931", "U+8D25", ":", " ">>), stitched |-> {}, file |-> nothing]
        ELSE IF ~skips_stitch(a.block_num) /\ stitch_img(1, a.height, a.block_num).panic THEN
            [res |-> Err("Internal", <<"U+56FE", "U+7247", "U+5904", "U+7406", "U+4EFB", "U+52A1", "U+5D29", "U+6E83", ":", " ">>), stitched |-> {a.block_num},
             file |-> nothing]
        ELSE
            LET dst_img == IF skips_stitch(a.block_num) THEN [d \in 1..a.height |-> d - 1]
                           ELSE stitched_rows(a.height, a.block_num)
                called == IF skips_stitch(a.block_num) THEN {} ELSE {a.block_num}
            IN  IF a.writes THEN [res |-> Ok("unit"), stitched |-> called,
                                  file |-> wrote("png", dst_img)]
                ELSE [res |-> Err("Internal", <<"U+4FDD", "U+5B58", "U+56FE", "U+7247", "U+5230", " ">>), stitched |-> called,
                      file |-> nothing]

\* the images and block counts given to process_and_save_image
ProcessInputs ==
    { [fn |-> "process_and_save_image", format |-> f, decodes |-> dec, writes |-> wr,
       height |-> h, block_num |-> n] :
        f \in {"none", "gif", "jpeg"}, dec \in BOOLEAN, wr \in BOOLEAN,
        h \in {0, 1, 5, MaxHeight}, n \in 0..MaxBlockNum }

\* process_and_save_image is called and returns
process_and_save_image_returns ==
    /\ fnArgs.fn = "process_and_save_image"
    /\ fnResult = <<>>
    /\ fnResult' = <<process_and_save_image(fnArgs)>>
    /\ UNCHANGED <<fnArgs, run>>

CodecInit ==
    /\ SessionStart /\ Start({})
    /\ fnArgs \in BlockNumInputs \cup StitchInputs \cup ProcessInputs
    /\ fnResult = <<>> /\ run = NoRun

CodecNext ==
    \/ calculate_block_num_returns /\ UNCHANGED <<sessionVars, downloadVars>>
    \/ stitch_img_returns /\ UNCHANGED <<sessionVars, downloadVars>>
    \/ process_and_save_image_returns /\ UNCHANGED <<sessionVars, downloadVars>>

\* the descrambling functions, each on every input of the sets above
SpecCodec == CodecInit /\ [][CodecNext]_vars

(***************************************************************************)
(* Claims about the descrambler (checked under SpecCodec)                  *)
(***************************************************************************)
\* C22: calculate_block_num returns 0 whenever chapter_id < scramble_id;
\* otherwise 10 when chapter_id < 268850; otherwise an even value from 2 to 20
\* when chapter_id < 421926 and an even value from 2 to 16 from 421926 on,
\* whatever the last character of the digest.
C22_BlockNumRegimes ==
    (fnArgs.fn = "calculate_block_num" /\ fnResult # <<>>) =>
        LET b == fnResult[1]
            c == fnArgs.chapter_id
        IN  IF c < fnArgs.scramble_id THEN b = 0
            ELSE IF c < 268850 THEN b = 10
            ELSE IF c < 421926 THEN b \in {2 * k : k \in 1..10}
            ELSE b \in {2 * k : k \in 1..8}

\* the first test wins where two apply, and each hashed regime is entered
C22_Witness ==
    /\ fnArgs.fn = "calculate_block_num" /\ fnResult = <<0>>
    /\ fnArgs.chapter_id = 220979 /\ fnArgs.scramble_id = 220980
C22_WitnessHashed ==
    /\ fnArgs.fn = "calculate_block_num" /\ fnResult = <<16>>
    /\ fnArgs.chapter_id = 500000 /\ fnArgs.scramble_id = 220980

\* C23: in the hashed regimes the result is ((code of the digest's last
\* character) mod x) * 2 + 2 with x = 10 below chapter 421926 and x = 8 from
\* there on, the code being the ASCII code; for '0' and x = 10 that is 18,
\* where the hexadecimal value would give 2.
C23_BlockNumUsesAsciiCode ==
    (/\ fnArgs.fn = "calculate_block_num" /\ fnResult # <<>>
     /\ fnArgs.chapter_id >= fnArgs.scramble_id /\ fnArgs.chapter_id >= 268850) =>
        LET x == IF fnArgs.chapter_id < 421926 THEN 10 ELSE 8
            code == CASE fnArgs.last = "0" -> 48 [] fnArgs.last = "1" -> 49
                      [] fnArgs.last = "2" -> 50 [] fnArgs.last = "3" -> 51
                      [] fnArgs.last = "4" -> 52 [] fnArgs.last = "5" -> 53
                      [] fnArgs.last = "6" -> 54 [] fnArgs.last = "7" -> 55
                      [] fnArgs.last = "8" -> 56 [] fnArgs.last = "9" -> 57
                      [] fnArgs.last = "a" -> 97 [] fnArgs.last = "b" -> 98
                      [] fnArgs.last = "c" -> 99 [] fnArgs.last = "d" -> 100
                      [] fnArgs.last = "e" -> 101 [] fnArgs.last = "f" -> 102
        IN  /\ fnResult[1] = (code % x) * 2 + 2
            /\ (fnArgs.last = "0" /\ x = 10) => fnResult[1] = 18

C23_Witness ==
    /\ fnArgs.fn = "calculate_block_num" /\ fnResult = <<18>>
    /\ fnArgs.last = "0" /\ fnArgs.chapter_id = 300000 /\ fnArgs.scramble_id = 220980

\* C24: for every height H and every block count n >= 1, stitch_img returns
\* an image of the same width and height without a panic, every row index it
\* reads or writes is in [0, H), and every destination pixel is written
\* exactly once, each source row going to one destination row: the rows are
\* permuted.
C24_StitchPermutesRows ==
    (fnArgs.fn = "stitch_img" /\ fnResult # <<>> /\ fnArgs.block_num >= 1) =>
        LET out == fnResult[1]
            H == fnArgs.height
            W == fnArgs.width
        IN  /\ ~out.panic
            /\ out.width = W /\ out.height = H
            /\ \A w \in out.writes : w.src_y \in 0..(H - 1) /\ w.dst_y \in 0..(H - 1)
            /\ \A d \in 0..(H - 1), x \in 0..(W - 1) :
                  Cardinality({w \in out.writes : w.dst_y = d /\ w.x = x}) = 1
            /\ \A s \in 0..(H - 1) :
                  Cardinality({w.dst_y : w \in {v \in out.writes : v.src_y = s}}) = 1
            /\ \A d \in 0..(H - 1) :
                  Cardinality({w.src_y : w \in {v \in out.writes : v.dst_y = d}}) = 1

\* more blocks than rows, and a height the block count does not divide
C24_Witness ==
    /\ fnArgs.fn = "stitch_img" /\ fnResult # <<>>
    /\ fnArgs.height = 3 /\ fnArgs.block_num = 10 /\ Cardinality(fnResult[1].writes) = 3 * fnArgs.width
C24_WitnessRemainder ==
    /\ fnArgs.fn = "stitch_img" /\ fnResult # <<>>
    /\ fnArgs.height = 11 /\ fnArgs.block_num = 4
    /\ \E w \in fnResult[1].writes : w.src_y = 0 /\ w.dst_y = 9



(***************************************************************************)
(* The protocol client, one call at a time (jm_client.rs)                  *)
(***************************************************************************)
\* decrypt_data on a data string, told by what matters to the function:
\* b64, whether it is valid Base-64; len, the number of bytes it decodes
\* to; pad, the last byte of the AES output (the key, so the timestamp,
\* decides it); utf8, whether the bytes left after the cut are UTF-8.
\* clone_from_slice panics on a chunk that is not 16 bytes long, unwrap on
\* the last byte of no bytes, and the slice on an end below zero.
decrypt_data(c) ==
    IF ~c.b64 THEN decrypt_result([dec |-> "base64"])
    ELSE IF c.len % 16 # 0 THEN Panicked
    ELSE IF c.len = 0 THEN Panicked
    ELSE IF c.pad > c.len THEN Panicked
    ELSE IF ~c.utf8 THEN decrypt_result([dec |-> "utf8"])
    ELSE Ok(<<"{", "}">>)

DecryptInputs ==
    { [fn |-> "decrypt_data", b64 |-> b, len |-> n, pad |-> p, utf8 |-> u] :
        b \in BOOLEAN, n \in {0, 15, 16, 32, 33}, p \in {0, 1, 16, 17, 32, 255}, u \in BOOLEAN }

\* decrypted album texts, with what serde_json makes of them
ComicTexts ==
    { GoodData(<<"{", "\"", "n", "a", "m", "e", "\"", ":", "\"", "F", "o", "o", "\"", ",", "\"", "s", "e", "r", "i", "e", "s", "\"", ":", "[", "]", "}">>, SomeComic),
      [GoodData(<<"{", "\"", "n", "a", "m", "e", "\"", ":", "n", "u", "l", "l", "}">>, <<>>) EXCEPT !.name = "null", !.typed = FALSE],
      [GoodData(<<"{", "\"", "n", "a", "m", "e", "\"", ":", " ", "\"", "\"", "}">>, <<>>) EXCEPT !.name = "blank", !.typed = FALSE],
      [GoodData(<<"{", "\"", "n", "a", "m", "e", "\"", ":", "\"", " ", "\"", "}">>, <<>>) EXCEPT !.name = "blank", !.typed = FALSE],
      [GoodData(<<"{", "\"", "s", "e", "r", "i", "e", "s", "\"", ":", "[", "]", "}">>, <<>>) EXCEPT !.name = "absent", !.typed = FALSE],
      [GoodData(<<"{", "\"", "n", "a", "m", "e", "\"", " ", ":", " ", "n", "u", "l", "l", "}">>, <<>>) EXCEPT !.name = "null", !.typed = FALSE],
      [GoodData(<<"{", "\"", "n", "a", "m", "e", "\"", ":", "7", "}">>, <<>>) EXCEPT !.name = "other", !.typed = FALSE],
      [GoodData(<<"{", "\"", "n", "a", "m", "e", "\"", ":", "\"", "F", "o", "o", "\"", ",", "\"", "s", "e", "r", "i", "e", "s", "\"", ":", "3", "}">>, <<>>) EXCEPT !.typed = FALSE],
      [GoodData(<<"{", "\"", "n", "a", "m", "e", "\"", ":", "\"", "F", "o", "o", "\"", ",", "\"", "s", "e", "r", "i", "e", "s", "\"", ":", "[", "{", "\"", "i", "d", "\"", ":", "\"", "1", "\"", ",", "\"", "n", "a", "m", "e", "\"", ":", "\"", "\"", "}", "]", "}">>,
                [name |-> "Foo", series |-> <<[id |-> <<"1">>, name |-> ""] >>]) EXCEPT !.typed = TRUE],
      [GoodData(<<"{", "\"", "n", "a", "m", "e", "\"", ":", "n", "u", "l", "l">>, <<>>) EXCEPT !.json = FALSE, !.name = "absent", !.typed = FALSE],
      [GoodData(<<"{", "\"", "n", "a", "m", "e", "\"", ":", "\"", "F", "o", "o", "\"">>, <<>>) EXCEPT !.json = FALSE, !.name = "absent", !.typed = FALSE] }

\* decrypted chapter texts
ChapterTexts ==
    { GoodData(<<"{", "\"", "i", "m", "a", "g", "e", "s", "\"", ":", "[", "\"", "a", ".", "w", "e", "b", "p", "\"", "]", "}">>, SomeChapter),
      [GoodData(<<"{", "\"", "i", "m", "a", "g", "e", "s", "\"", ":", "3", "}">>, <<>>) EXCEPT !.typed = FALSE],
      [GoodData(<<"{", "\"", "i", "m", "a", "g", "e", "s", "\"", ":", "[">>, <<>>) EXCEPT !.json = FALSE, !.typed = FALSE] }

\* data that is no string, and strings on which decrypt_data fails
OtherData ==
    { NoData,
      [NoData EXCEPT !.is_str = TRUE, !.dec = "base64"],
      [NoData EXCEPT !.is_str = TRUE, !.dec = "utf8"],
      [NoData EXCEPT !.is_str = TRUE, !.dec = "panic"] }

ErrorMsgs == { <<>>, <<"N", "o", "t", " ", "F", "o", "u", "n", "d">>, <<"c", "o", "m", "i", "c", " ", "n", "o", "t", " ", "f", "o", "u", "n", "d", " ", "h", "e", "r", "e">>, <<"b", "u", "s", "y">> }

\* what the server may answer to login, album and chapter requests
WrappedUpstream(texts) ==
    { TransportErr("send_err", <<"t", "i", "m", "e", "o", "u", "t">>), TransportErr("read_err", <<"r", "e", "s", "e", "t">>),
      Http(404, <<"g", "o", "n", "e">>), Http(500, <<>>), Http(200, <<"<", "h", "t", "m", "l", ">">>) }
    \cup { Wrapped(code, m, d) : code \in {200, 404, 401, 500}, m \in ErrorMsgs,
                                 d \in texts \cup OtherData }

\* pages the scramble-id endpoint may answer with
ScrambleBodies ==
    { ScrambleMarker \o <<"1", "2", "3", ";">>, <<"<", "s", "c", "r", "i", "p", "t", ">">> \o ScrambleMarker \o <<"-", "5", ";", "v", "a", "r", " ", "x">>,
      ScrambleMarker \o <<"+", "7", ";">>, ScrambleMarker \o <<"1", "2">>, ScrambleMarker \o <<"1", "2", " ", ";">>,
      ScrambleMarker \o <<" ", "1", "2", ";">>, ScrambleMarker \o <<"a", "b", "c", ";">>, ScrambleMarker \o <<";">>,
      ScrambleMarker \o <<"1", ";">> \o ScrambleMarker \o <<"2", ";">>,
      ScrambleMarker \o <<"9", "9", "9", "9", "9", "9", "9", "9", "9", "9", "9", "9", "9", "9", "9", "9", "9", "9", "9", "9", ";">>, ScrambleMarker \o <<"1", "2", "a">>,
      <<"v", "a", "r", " ", "s", "c", "r", "a", "m", "b", "l", "e", "_", "i", "d", "=", "5", ";">>, <<"h", "e", "l", "l", "o", ";">>, <<>> }

ScrambleUpstream ==
    { TransportErr("send_err", <<"t", "i", "m", "e", "o", "u", "t">>), TransportErr("read_err", <<"r", "e", "s", "e", "t">>),
      Http(404, <<"g", "o", "n", "e">>), Http(500, <<>>) }
    \cup { Http(200, b) : b \in ScrambleBodies }

ProtocolInputs ==
    DecryptInputs
    \cup { [fn |-> "login", id |-> 0, up |-> u] : u \in WrappedUpstream({}) }
    \cup { [fn |-> "get_comic", id |-> 9, up |-> u] : u \in WrappedUpstream(ComicTexts) }
    \cup { [fn |-> "get_chapter", id |-> 9, up |-> u] : u \in WrappedUpstream(ChapterTexts) }
    \cup { [fn |-> "get_scramble_id", id |-> 9, up |-> u] : u \in ScrambleUpstream }
    \cup { [fn |-> "chapter_name", comic |-> Catalogue(c), comic_id |-> c, chapter_id |-> k] :
             c \in {7, 9}, k \in {9, 11, 13} }

\* the function is called and returns (or panics)
Applied(fn, result) ==
    /\ fnArgs.fn = fn
    /\ fnResult = <<>>
    /\ fnResult' = <<result>>
    /\ UNCHANGED <<fnArgs, run>>

decrypt_data_returns == Applied("decrypt_data", decrypt_data(fnArgs))
JmClient_login_returns == Applied("login", JmClient_login(fnArgs.up))
JmClient_get_comic_returns == Applied("get_comic", JmClient_get_comic(fnArgs.id, fnArgs.up))
JmClient_get_chapter_returns == Applied("get_chapter", JmClient_get_chapter(fnArgs.id, fnArgs.up))
JmClient_get_scramble_id_returns ==
    Applied("get_scramble_id", JmClient_get_scramble_id(fnArgs.id, fnArgs.up))
chapter_name_returns ==
    Applied("chapter_name", chapter_name(fnArgs.comic, fnArgs.comic_id, fnArgs.chapter_id))

ProtocolInit ==
    /\ SessionStart /\ Start({})
    /\ fnArgs \in ProtocolInputs
    /\ fnResult = <<>> /\ run = NoRun

ProtocolNext ==
    \/ decrypt_data_returns /\ UNCHANGED <<sessionVars, downloadVars>>
    \/ JmClient_login_returns /\ UNCHANGED <<sessionVars, downloadVars>>
    \/ JmClient_get_comic_returns /\ UNCHANGED <<sessionVars, downloadVars>>
    \/ JmClient_get_chapter_returns /\ UNCHANGED <<sessionVars, downloadVars>>
    \/ JmClient_get_scramble_id_returns /\ UNCHANGED <<sessionVars, downloadVars>>
    \/ chapter_name_returns /\ UNCHANGED <<sessionVars, downloadVars>>

\* each call of the protocol client on every answer of the sets above
SpecProtocol == ProtocolInit /\ [][ProtocolNext]_vars

(***************************************************************************)
(* Claims about the protocol client (checked under SpecProtocol)           *)
(***************************************************************************)
Returned(fn) == fnArgs.fn = fn /\ fnResult # <<>>

\* C25: decrypt_data ends, whatever its input, with a UTF-8 string or with
\* an Internal error: a data that is not Base-64, that decodes to no bytes
\* or to a number of bytes that 16 does not divide, whose pad length exceeds
\* its length, or that is not UTF-8 gives Internal, and the call never
\* panics.
C25_DecryptNeverAborts ==
    Returned("decrypt_data") =>
        /\ fnResult[1].kind \in {"Ok", "Internal"}
        /\ (\/ ~fnArgs.b64 \/ fnArgs.len = 0 \/ fnArgs.len % 16 # 0
            \/ fnArgs.pad > fnArgs.len \/ ~fnArgs.utf8) => fnResult[1].kind = "Internal"



C26_WitnessNotFound ==
    /\ Returned("get_comic") /\ fnResult[1].kind = "NotFound"
    /\ fnArgs.up.status = 200 /\ fnArgs.up.code = 200 /\ fnArgs.up.data.name = "blank"

\* In the handlers, a request comes to answer NotFound only when get_comic
\* returns it or the chapter lookup fails: no page task, directory or PDF
\* step makes it so (holds under SpecValidate, SpecDownload and SpecComic).
C26_HandlerStepsAddNoNotFound ==
    [][\A r \in Requests :
          (resp'[r].kind = "NotFound" /\ resp[r].kind # "NotFound") =>
              \/ dpc[r] \in {"get_comic", "info_comic"}
              \/ /\ dpc[r] = "join" /\ req[r].kind = "chapter" /\ pos[r] < Len(req[r].chapter_ids)
                 /\ resp'[r] = chapter_name(comic[r], req[r].comic_id,
                                            req[r].chapter_ids[pos[r] + 1])]_vars



\* the server answered HTTP 200 with a wrapped response
WrappedAnswer == fnArgs.up.send = "ok" /\ fnArgs.up.status = 200 /\ fnArgs.up.json

\* C27: login, get_comic and get_chapter alike answer a wrapped response
\* (HTTP 200) whose code is 404, or whose code is not 200 and whose
\* error_msg contains "not found", with NotFound, and every other code but
\* 200 with Internal.
C27_WrappedCodeHandledAlike ==
    \A fn \in {"login", "get_comic", "get_chapter"} :
        (Returned(fn) /\ WrappedAnswer /\ fnArgs.up.code # 200) =>
            IF fnArgs.up.code = 404 \/ Contains(ToLower(fnArgs.up.error_msg), <<"n", "o", "t", " ", "f", "o", "u", "n", "d">>)
            THEN fnResult[1].kind = "NotFound"
            ELSE fnResult[1].kind = "Internal"

\* C28: get_comic and get_chapter, given a wrapped response with code 200,
\* decrypt a string data and parse the text as JSON, and let a data that is
\* no string through without an error.
C28_NonStringDataPassesThrough ==
    \A fn \in {"get_comic", "get_chapter"} :
        (Returned(fn) /\ WrappedAnswer /\ fnArgs.up.code = 200) =>
            /\ ~fnArgs.up.data.is_str => fnResult[1].ok
            /\ (fnArgs.up.data.is_str /\ fnResult[1].ok) =>
                  /\ fnArgs.up.data.dec = "ok" /\ fnArgs.up.data.json
                  /\ fnResult[1].val = <<fnArgs.up.data.value>>

\* the album text was decrypted
AlbumDecrypted ==
    /\ Returned("get_comic") /\ WrappedAnswer /\ fnArgs.up.code = 200
    /\ fnArgs.up.data.is_str /\ fnArgs.up.data.dec = "ok"
NamePatternIn(text) ==
    \E p \in {<<"\"", "n", "a", "m", "e", "\"", ":", "n", "u", "l", "l">>, <<"\"", "n", "a", "m", "e", "\"", ":", " ", "n", "u", "l", "l">>, <<"\"", "n", "a", "m", "e", "\"", ":", "\"", "\"">>, <<"\"", "n", "a", "m", "e", "\"", ":", " ", "\"", "\"">>} : Contains(text, p)

\* C29: once the album text is decrypted, get_comic returns NotFound when
\* the text is JSON whose top-level name is absent, null or blank after
\* trimming, and when the text holds one of the patterns "name":null,
\* "name": null, "name":"", "name": "", be it JSON or not; a text that is not
\* JSON and holds no such pattern gives Internal.
C29_MissingComicDetection ==
    AlbumDecrypted =>
        LET d == fnArgs.up.data
        IN  /\ (d.json /\ d.name \in {"absent", "null", "blank"}) => fnResult[1].kind = "NotFound"
            /\ NamePatternIn(d.text) => fnResult[1].kind = "NotFound"
            /\ (~d.json /\ ~NamePatternIn(d.text)) => fnResult[1].kind = "Internal"

\* a text cut short after "name":null has been answered with NotFound
C29_Witness ==
    /\ AlbumDecrypted /\ ~fnArgs.up.data.json /\ NamePatternIn(fnArgs.up.data.text)
    /\ fnResult[1].kind = "NotFound"
C29_WitnessBlank ==
    /\ AlbumDecrypted /\ fnArgs.up.data.name = "blank" /\ ~NamePatternIn(fnArgs.up.data.text)
    /\ fnResult[1].kind = "NotFound"
C29_WitnessMalformed ==
    AlbumDecrypted /\ ~fnArgs.up.data.json /\ fnResult[1].kind = "Internal"

\* the text between the first marker and the next ';' (or the end)
ScrambleField(body) ==
    LET rest == Drop(body, IndexOf(body, ScrambleMarker) + Len(ScrambleMarker))
        semi == IndexOf(rest, <<";">>)
    IN  IF semi < 0 THEN rest ELSE Take(rest, semi)

C30_WitnessFallback ==
    /\ Returned("get_scramble_id") /\ fnResult[1] = Ok(220980)
    /\ fnArgs.up.body = ScrambleMarker \o <<"1", "2", " ", ";">>



(***************************************************************************)
(* image_processor.rs, download_image, and the retry middleware            *)
(* (RetryTransientMiddleware with ExponentialBackoff, max_retries 3) under *)
(* the two strategies JmRetryStrategy and CustomRetryStrategy              *)
(***************************************************************************)
IMG_BODY_READ_MAX_RETRIES == 3
IMG_BODY_READ_BACKOFF_MS == 200
IMG_BODY_READ_MAX_BACKOFF_MS == 2000
\* ExponentialBackoff::builder().build_with_max_retries(3)
max_n_retries == 3

\* what one attempt of the HTTP client yields: an error of reqwest, an error
\* of a middleware, or a response with its status
Attempts ==
    { [kind |-> "reqwest", status |-> 0], [kind |-> "middleware", status |-> 0] }
    \cup { [kind |-> "response", status |-> st] : st \in {200, 204, 301, 404, 429, 500, 503} }

is_server_error(status) == status >= 500 /\ status <= 599
is_success(status) == status >= 200 /\ status <= 299

Without429(res) == res.kind \in {"reqwest", "middleware"} \/ is_server_error(res.status)
\* JmRetryStrategy::handle(res) = Some(Retryable::Transient)
JmRetryStrategy_handle(res) ==
    CASE res.kind = "reqwest" -> TRUE
      [] res.kind = "middleware" -> TRUE
      [] OTHER -> is_server_error(res.status) \/ res.status = 429

\* CustomRetryStrategy::handle(res) = Some(Retryable::Transient)
CustomRetryStrategy_handle(res) ==
    CASE res.kind = "reqwest" -> TRUE
      [] res.kind = "middleware" -> TRUE
      [] OTHER -> IF is_server_error(res.status) THEN TRUE
                  ELSE IF res.status = 429 THEN TRUE ELSE FALSE

handle(strategy, res) ==
    IF strategy = "JmRetryStrategy" THEN JmRetryStrategy_handle(res)
    ELSE CustomRetryStrategy_handle(res)

ExhaustedAfterFour(retries) == retries >= IMG_BODY_READ_MAX_RETRIES + 1
\* if retries >= IMG_BODY_READ_MAX_RETRIES
retries_exhausted(retries) == retries >= IMG_BODY_READ_MAX_RETRIES

OnlyErrorsFail(res) == res.kind # "response"
\* download_image after send().await: the `?` on an error and the return on
\* a status that is not 2xx
send_failed(res) == res.kind # "response" \/ ~is_success(res.status)

\* the first line of download_image, and a send of the API client
RunStart == [NoRun EXCEPT !.pc = "send", !.backoff = IMG_BODY_READ_BACKOFF_MS]

\* the middleware runs an attempt, the strategy calls its outcome transient
\* and the policy has retries left: it sleeps and sends again
middleware_retries ==
    /\ run.pc = "send"
    /\ \E res \in Attempts :
          /\ handle(fnArgs.strategy, res)
          /\ run.n_past_retries < max_n_retries
          /\ run' = [run EXCEPT !.n_past_retries = @ + 1, !.sends = @ + 1, !.last = res]
    /\ UNCHANGED <<fnArgs, fnResult>>

\* the middleware returns the outcome of an attempt: to the API client, or
\* to download_image, which returns Internal or goes on to read the body
send_returns ==
    /\ run.pc = "send"
    /\ \E res \in Attempts :
          /\ ~handle(fnArgs.strategy, res) \/ run.n_past_retries >= max_n_retries
          /\ IF fnArgs.fn = "send" THEN
                 /\ fnResult' = <<res>>
                 /\ run' = [run EXCEPT !.pc = "done", !.sends = @ + 1, !.last = res]
             ELSE IF send_failed(res) THEN
                 /\ fnResult' = <<Err("Internal",
                                      IF res.kind # "response" THEN <<"U+53D1", "U+9001", "U+8BF7", "U+6C42", "U+5230", " ">>
                                      ELSE <<"U+4ECE", " ">> \o Dec(res.status))>>
                 /\ run' = [run EXCEPT !.pc = "done", !.sends = @ + 1, !.last = res]
             ELSE
                 /\ run' = [run EXCEPT !.pc = "bytes", !.sends = @ + 1, !.last = res]
                 /\ UNCHANGED fnResult
    /\ UNCHANGED fnArgs

\* response.bytes().await returns
bytes_returns ==
    /\ run.pc = "bytes"
    /\ \E ok \in BOOLEAN :
          IF ok THEN
              /\ fnResult' = <<Ok("bytes")>>
              /\ run' = [run EXCEPT !.pc = "done", !.reads = @ + 1]
          ELSE IF retries_exhausted(run.retries) THEN
              /\ fnResult' = <<Err("Internal", <<"U+8BFB", "U+53D6", "U+54CD", "U+5E94", "U+5B57", "U+8282", "U+5931", "U+8D25", " ", "(", "U+5DF2", "U+91CD", "U+8BD5">> \o Dec(run.retries))>>
              /\ run' = [run EXCEPT !.pc = "done", !.reads = @ + 1]
          ELSE
              /\ run' = [run EXCEPT !.pc = "sleep", !.reads = @ + 1, !.retries = @ + 1]
              /\ UNCHANGED fnResult
    /\ UNCHANGED fnArgs

\* tokio::time::sleep(backoff) is over; the next backoff is twice as long,
\* up to the cap, and the loop sends again
sleep_returns ==
    /\ run.pc = "sleep"
    /\ run' = [run EXCEPT !.pc = "send", !.slept = Append(@, run.backoff),
                          !.n_past_retries = 0,
                          !.backoff = IF 2 * run.backoff < IMG_BODY_READ_MAX_BACKOFF_MS
                                      THEN 2 * run.backoff ELSE IMG_BODY_READ_MAX_BACKOFF_MS]
    /\ UNCHANGED <<fnArgs, fnResult>>

ImageInit ==
    /\ SessionStart /\ Start({})
    /\ fnArgs \in { [fn |-> "download_image", strategy |-> "CustomRetryStrategy"],
                    [fn |-> "send", strategy |-> "JmRetryStrategy"] }
    /\ fnResult = <<>>
    /\ run = RunStart

ImageNext ==
    \/ middleware_retries /\ UNCHANGED <<sessionVars, downloadVars>>
    \/ send_returns /\ UNCHANGED <<sessionVars, downloadVars>>
    \/ bytes_returns /\ UNCHANGED <<sessionVars, downloadVars>>
    \/ sleep_returns /\ UNCHANGED <<sessionVars, downloadVars>>

\* download_image and a send of the API client, where every attempt, every
\* body read and every sleep comes to an end
SpecImage == ImageInit /\ [][ImageNext]_vars /\ WF_vars(ImageNext)

(***************************************************************************)
(* Claims about download_image and the middleware (checked under SpecImage)*)
(***************************************************************************)
IsPrefix(s, t) == Len(s) <= Len(t) /\ \A i \in 1..Len(s) : s[i] = t[i]

\* C31: download_image comes to an end whatever upstream does; it reads the
\* body at most 4 times, has slept 200, 400 and 800 ms before the second,
\* third and fourth read (never more than 2000 ms), and returns Internal
\* when the fourth read fails.
C31_DownloadImageTerminates ==
    /\ [](fnArgs.fn = "download_image" =>
            /\ run.reads <= 4
            /\ IsPrefix(run.slept, <<200, 400, 800>>)
            /\ \A i \in 1..Len(run.slept) : run.slept[i] <= 2000
            /\ run.pc \in {"send", "bytes"} => Len(run.slept) = run.reads)
    /\ [][(fnArgs.fn = "download_image" /\ run.pc = "bytes" /\ run.reads = 3
           /\ run'.pc # "bytes") =>
              fnResult' \in {<<Ok("bytes")>>} \cup
                            {<<Err("Internal", <<"U+8BFB", "U+53D6", "U+54CD", "U+5E94", "U+5B57", "U+8282", "U+5931", "U+8D25", " ", "(", "U+5DF2", "U+91CD", "U+8BD5">> \o <<"3">>)>>}]_vars
    /\ <>(fnResult # <<>>)

\* the fourth body read has failed
C31_Witness ==
    /\ fnArgs.fn = "download_image" /\ run.reads = 4 /\ run.slept = <<200, 400, 800>>
    /\ fnResult # <<>> /\ ~fnResult[1].ok

\* C32: in download_image a send that the middleware returns as an error,
\* and a response whose status is not 2xx, end the call with Internal at
\* once, whatever the retries used so far; the loop goes round again only
\* after a failed body read.
C32_OnlyBodyReadFailureRetries ==
    [][fnArgs.fn = "download_image" =>
          /\ (run.pc = "send" /\ run'.pc # "send"
              /\ (run'.last.kind # "response"
                  \/ run'.last.status < 200 \/ run'.last.status > 299)) =>
                 (run'.pc = "done" /\ fnResult' # <<>> /\ fnResult'[1].kind = "Internal")
          /\ run'.retries # run.retries =>
                 (run.pc = "bytes" /\ run'.pc = "sleep" /\ run'.retries = run.retries + 1)
          /\ (run'.pc = "send" /\ run.pc # "send") => run.pc = "sleep"]_vars

\* a status 404 has ended the call after two failed body reads
C32_Witness ==
    /\ fnArgs.fn = "download_image" /\ run.retries = 2 /\ run.pc = "done"
    /\ run.last.kind = "response" /\ run.last.status = 404 /\ fnResult[1].kind = "Internal"

\* C33: under both strategies the middleware sends again exactly after a
\* transport error, a middleware error, a 5xx and a 429, as long as it has
\* sent at most 3 times before; every other response is returned as it is,
\* and one send makes at most 1 + 3 attempts.
C33_RetryClassification ==
    /\ [](run.n_past_retries <= 3)
    /\ [][(run.pc = "send" /\ run'.sends = run.sends + 1) =>
            LET res == run'.last
                transient == \/ res.kind \in {"reqwest", "middleware"}
                             \/ res.status \in 500..599 \/ res.status = 429
            IN  /\ run'.pc = "send" => (transient /\ run.n_past_retries < 3)
                /\ run'.pc # "send" => (~transient \/ run.n_past_retries = 3)]_vars

\* both strategies have retried a 429 up to the fourth attempt
C33_Witness ==
    /\ fnArgs.fn = "send" /\ run.pc = "done" /\ run.sends = 4
    /\ fnResult = <<[kind |-> "response", status |-> 429]>>
C33_WitnessImage ==
    /\ fnArgs.fn = "download_image" /\ run.pc = "done" /\ run.sends = 4 /\ run.retries = 0
    /\ run.last = [kind |-> "response", status |-> 429]



\* C34: process_and_save_image never calls stitch_img with the block count
\* 0, for no block_num and no image: with block_num = 0 it saves the decoded
\* image as it is, row for row.  calculate_block_num returns even values
\* only, so never 1.
C34_StitchNeverGetsZero ==
    /\ (fnArgs.fn = "process_and_save_image" /\ fnResult # <<>>) =>
          LET out == fnResult[1]
          IN  /\ 0 \notin out.stitched
              /\ out.res.kind # "Panic"
              /\ (fnArgs.block_num = 0 /\ out.res.ok /\ fnArgs.format # "gif") =>
                    /\ out.stitched = {}
                    /\ out.file = [kind |-> "png", rows |-> [d \in 1..fnArgs.height |-> d - 1]]
              /\ (fnArgs.block_num # 0 /\ out.res.ok /\ fnArgs.format # "gif") =>
                    out.stitched = {fnArgs.block_num}
    /\ (fnArgs.fn = "calculate_block_num" /\ fnResult # <<>>) =>
          fnResult[1] % 2 = 0 /\ fnResult[1] # 1

\* an image of five rows was saved as it is with block_num = 0
C34_Witness ==
    /\ fnArgs.fn = "process_and_save_image" /\ fnResult # <<>>
    /\ fnArgs.block_num = 0 /\ fnArgs.height = 5
    /\ fnResult[1].res.ok /\ fnResult[1].file.rows = <<0, 1, 2, 3, 4>>



(***************************************************************************)
(* jm_client.rs, get_comic and get_chapter: the timestamp of a call, from  *)
(* SystemTime::now() to decrypt_data, under the retry middleware and the   *)
(* retry of the session manager                                            *)
(***************************************************************************)
MaxTs == 3

ResignedTs(ts, clock) == clock
\* the middleware sends the request it was given again: the headers token
\* and tokenparam keep the ts they were built from
resend_ts(ts, clock) == ts

\* before the first SystemTime::now() of a session-manager call.  ts is the
\* local of the running JmClient call, signed the ts in the headers of each
\* attempt of its request, key the ts given to decrypt_data, first the ts of
\* the call before the session manager's retry.
SignedStart ==
    [pc |-> "ts", clock |-> 0, ts |-> 0, call |-> 1, n_past_retries |-> 0,
     signed |-> <<>>, key |-> <<>>, first |-> <<>>]

\* a second passes
time_passes ==
    /\ run.pc # "done"
    /\ run.clock < MaxTs
    /\ run' = [run EXCEPT !.clock = @ + 1]
    /\ UNCHANGED <<fnArgs, fnResult>>

\* let ts = SystemTime::now()...as_secs(); token and tokenparam are built
SystemTime_now ==
    /\ run.pc = "ts"
    /\ run' = [run EXCEPT !.pc = "send", !.ts = run.clock, !.signed = <<>>,
                          !.n_past_retries = 0]
    /\ UNCHANGED <<fnArgs, fnResult>>

\* an attempt fails in a way the strategy calls transient, and is repeated
signed_attempt_retried ==
    /\ run.pc = "send"
    /\ run.n_past_retries < max_n_retries
    /\ run' = [run EXCEPT !.n_past_retries = @ + 1,
                          !.signed = Append(@, resend_ts(run.ts, run.clock))]
    /\ UNCHANGED <<fnArgs, fnResult>>

\* send().await returns: a response with data to decrypt, an answer that
\* is_auth_error takes for an expired session (the session manager logs in
\* again and calls once more, when this is its first call), or another error
signed_send_returns ==
    /\ run.pc = "send"
    /\ \E answer \in {"data", "auth", "error"} :
          LET sent == [run EXCEPT !.signed = Append(@, resend_ts(run.ts, run.clock))]
          IN  CASE answer = "data" ->
                     run' = [sent EXCEPT !.pc = "decrypt"] /\ UNCHANGED fnResult
                [] answer = "auth" /\ run.call = 1 ->
                     /\ run' = [sent EXCEPT !.pc = "ts", !.call = 2, !.first = <<run.ts>>]
                     /\ UNCHANGED fnResult
                [] OTHER ->
                     /\ run' = [sent EXCEPT !.pc = "done"]
                     /\ fnResult' = <<Err("Internal", <<>>)>>
    /\ UNCHANGED fnArgs

\* decrypt_data(ts, data) is called
decrypt_data_called ==
    /\ run.pc = "decrypt"
    /\ run' = [run EXCEPT !.pc = "done", !.key = <<run.ts>>]
    /\ fnResult' = <<Ok("data")>>
    /\ UNCHANGED fnArgs

SignedInit ==
    /\ SessionStart /\ Start({})
    /\ fnArgs \in {[fn |-> "get_comic"], [fn |-> "get_chapter"]}
    /\ fnResult = <<>>
    /\ run = SignedStart

SignedNext ==
    \/ time_passes /\ UNCHANGED <<sessionVars, downloadVars>>
    \/ SystemTime_now /\ UNCHANGED <<sessionVars, downloadVars>>
    \/ signed_attempt_retried /\ UNCHANGED <<sessionVars, downloadVars>>
    \/ signed_send_returns /\ UNCHANGED <<sessionVars, downloadVars>>
    \/ decrypt_data_called /\ UNCHANGED <<sessionVars, downloadVars>>

\* one session-manager call of get_comic or get_chapter while time passes
SpecSigned == SignedInit /\ [][SignedNext]_vars

\* C35: in get_comic and get_chapter the timestamp given to decrypt_data is
\* the one in the headers of the request whose response is decrypted, also
\* when the middleware sent that request several times; the call the session
\* manager makes after a re-login reads the clock anew and uses that value
\* for its request and its decryption.
C35_KeyTimestampIsSigningTimestamp ==
    /\ [](/\ run.key # <<>> => (run.signed # <<>> /\ run.key = <<run.signed[Len(run.signed)]>>)
          /\ \A i \in 1..Len(run.signed) : run.signed[i] = run.signed[1])
    /\ [][(run.pc = "ts" /\ run'.pc = "send") => run'.ts = run.clock]_vars
    /\ [][(run.pc = "send" /\ Len(run'.signed) > Len(run.signed)) =>
             run'.signed[Len(run'.signed)] = run.ts]_vars

\* the second call was signed and decrypted with a later timestamp than the
\* first, after the middleware had sent its request twice at different times
C35_Witness ==
    /\ run.call = 2 /\ run.key # <<>> /\ run.first # <<>> /\ run.key[1] > run.first[1]
    /\ Len(run.signed) = 2 /\ run.clock > run.key[1]



\* ---------------------------------------------------------------------
\* The session manager under fair scheduling: an upstream call that was
\* sent returns, and a caller queued on the flag lock gets it once it is
\* free (tokio's RwLock serves its waiters in arrival order).

\* the awaits of caller c that end when an upstream answer arrives
upstream_returns(c) ==
    (login_returns(c) \/ call_returns(c)) /\ UNCHANGED <<downloadVars, pureVars>>

\* the awaits of caller c that end when the flag lock is granted
flag_lock_granted(c) ==
    (ensure_session_valid(c) \/ relogin(c) \/ mark_session_invalid(c))
        /\ UNCHANGED <<downloadVars, pureVars>>

SessionLiveInit == SessionStart /\ DownloadStart /\ NotApplied

SpecSessionLive ==
    /\ SessionLiveInit
    /\ [][SessionNext]_vars
    /\ \A c \in Callers : WF_vars(upstream_returns(c)) /\ SF_vars(flag_lock_granted(c))

\* the callers that wait for the flag lock
WaitsForFlag(c) == pc[c] \in {"ensure", "relogin", "mark"}

\* C36: concurrent session-manager calls cannot deadlock: the client lock
\* has shared holders only (every caller that runs login or a request
\* holds it, whoever else does), the write guard of the flag is held only
\* by a caller that is inside relogin with the client lock taken and its
\* login running, no caller that waits for the flag lock holds it, and
\* every call that was started returns.
C36_SessionCallsReturn ==
    /\ [](\A c \in Callers : c \in clientReaders <=> pc[c] \in {"login", "call"})
    /\ [](\A c \in Callers : pc[c] = "login" => flagWriter = c)
    /\ [](flagWriter # NoCaller => pc[flagWriter] = "login" /\ flagWriter \in clientReaders)
    /\ [](\A c \in Callers : WaitsForFlag(c) => flagWriter # c)
    /\ \A c \in Callers : (pc[c] # "idle") ~> (pc[c] = "done")

\* one caller runs its login under the write guard while the other one,
\* whose request was refused too, waits for the flag lock
C36_Witness ==
    \E c, d \in Callers :
        /\ c # d
        /\ flagWriter = c /\ pc[c] = "login"
        /\ pc[d] = "mark"

\* both callers went through the repair and returned
C36_WitnessBothReturned ==
    \A c \in Callers : pc[c] = "done" /\ hist[c].marks = 1 /\ Len(hist[c].res) = 2



\* C39: a NotFound of the protocol client never changes the session: for
\* every comic id, a get_comic whose first request failed with NotFound has
\* returned that error to its caller, has not set the flag Invalid, has not
\* gone to relogin and has sent no second request.
C39_NotFoundLeavesSession ==
    \A c \in Callers :
        (op[c] = "get_comic" /\ hist[c].res # <<>> /\ hist[c].res[1].kind = "NotFound")
            => /\ pc[c] = "done"
               /\ ret[c] = hist[c].res[1]
               /\ hist[c].marks = 0
               /\ Len(hist[c].res) = 1



(***************************************************************************)
(* Page files under concurrent requests (checked under SpecDownload)       *)
(***************************************************************************)
\* process_and_save_image has created the file at path and its write has
\* not returned yet
BeingWritten(path) ==
    \E r \in Requests : \E i \in DOMAIN task[r] : task[r][i] = "save" /\ task_path(r, i) = path

\* the image paths a response data lists, as paths of the disk
ListedImages(data) ==
    LET rel == IF "chapters" \in DOMAIN data
               THEN UNION {{ch.images[j] : j \in DOMAIN ch.images} :
                              ch \in {data.chapters[k] : k \in DOMAIN data.chapters}}
               ELSE IF data.images = <<>> THEN {}
               ELSE {data.images[1][j] : j \in DOMAIN data.images[1]}
    IN  {<<".", "/">> \o p : p \in rel}

\* C37: the existence check of a page task never counts as a cache hit a
\* file whose write has not completed, and every image path of a successful
\* response names a file whose write had completed when the response was
\* made.
C37_ListedFilesAreComplete ==
    /\ [][\A r \in Requests : \A i \in DOMAIN task[r] :
            (task[r][i] = "permit" /\ task'[r] # <<>> /\ task'[r][i] = "joined")
                => ~BeingWritten(task_path(r, i))]_vars
    /\ [][\A r \in Requests :
            (dpc[r] # "done" /\ dpc'[r] = "done" /\ resp'[r].ok)
                => \A p \in ListedImages(resp'[r].val[1]) : ~BeingWritten(p)]_vars



\* C38: merged.pdf is at its final path only as the compressor left it, and
\* a downloadComic request with merge that returns success with a pdf_path
\* returns the path of a PDF that passed the compressor, whatever other
\* requests are doing or have left behind.
C38_PdfServedOnlyCompressed ==
    /\ [](\A d \in AllDirs : PdfExists(pdf[d]) => pdf[d].stage = "compressed")
    /\ [][\A r \in Requests :
            (dpc[r] # "done" /\ dpc'[r] = "done" /\ resp'[r].ok /\ resp'[r].val[1].pdf_path # <<>>)
                => pdf'[chapter_dir(req[r].comic_id, chapter_id_of(r))].stage = "compressed"]_vars



\* C40: a decrypted album text that is well-formed JSON with a non-blank
\* top-level name is never answered with NotFound by get_comic, whatever
\* its other fields hold.
C40_NamedAlbumIsFound ==
    (AlbumDecrypted /\ fnArgs.up.data.json /\ fnArgs.up.data.name = "text")
        => fnResult[1].kind # "NotFound"

=============================================================================
